---- MODULE Spec2Model ----
(***************************************************************************)
(* Document lifecycle engine of re-software: documents, totals, sequence   *)
(* counters, status machine and lifecycle operations, modelled from        *)
(* app/services/document_service.py, app/models/document.py and            *)
(* app/repositories/*.py.                                                  *)
(*                                                                         *)
(* Money is an integer number of mills (1/1000 EUR), so that sub-cent      *)
(* payment amounts and the 0.01 tolerance (10 mills) are exact; round(x,2) *)
(* is rounding to a multiple of 10 mills.  Binary floating point           *)
(* representation error is not modelled.  Percentages (vat_rate,           *)
(* discount_percent) are integers per cent.  Free-text fields of a line    *)
(* item (name, description, unit) and timestamps carry no decision and are *)
(* left out of the records.                                                *)
(***************************************************************************)
EXTENDS Integers, Sequences, FiniteSets, TLC

VARIABLES
    docs,       \* documents collection: sequence of records, _id = index
    counters,   \* counters collection: [<<company_id, counter_type>> -> sequence], 0 = no counter document
    companies,  \* companies collection: [company_id -> [is_kleinunternehmer]]
    last,       \* outcome of the most recent observed service call: [op, result]
    observed,   \* the operations whose outcome is kept in `last` (fixed by Init)
    capacity,   \* the number of documents the collection can hold (fixed by Init)
    calls,      \* service calls in flight between two of their awaits: [caller -> call]
    pc,         \* SpecAlloc: position of each concurrent caller of _generate_document_number
    seqOf,      \* SpecAlloc: the sequence value get_next_number returned to each caller
    issued,     \* SpecAlloc: document numbers returned, in order of return
    base        \* SpecAlloc: counter values before the concurrent callers started

vars == <<docs, counters, companies, last, observed, capacity, calls, pc, seqOf, issued, base>>
storeVars == <<docs, counters, companies>>
allocVars == <<pc, seqOf, issued, base>>

----------------------------------------------------------------------------
(* Bounds of the model *)

MaxDocs == 2        \* documents in the collection
MaxWorkers == 3     \* SpecAlloc: concurrent allocations
MaxIssued == 2      \* SpecAlloc: numbers a counter issued before the callers start
MaxPayments == 2    \* SpecCascade: direct payments recorded on one document
MaxSequence == 3    \* SpecConvert: numbers drawn from one counter
MaxCallers == 2     \* callers whose service calls run concurrently

----------------------------------------------------------------------------
(* Enumerations: app/models/document.py *)

INVOICE == "INVOICE"
QUOTE == "QUOTE"
DELIVERY_NOTE == "DELIVERY_NOTE"
ORDER_CONFIRMATION == "ORDER_CONFIRMATION"
PARTIAL_INVOICE == "PARTIAL_INVOICE"
CREDIT_NOTE == "CREDIT_NOTE"
CANCELLATION == "CANCELLATION"

DocumentType_ALL ==
    {INVOICE, QUOTE, DELIVERY_NOTE, ORDER_CONFIRMATION, PARTIAL_INVOICE, CREDIT_NOTE, CANCELLATION}

DRAFT == "DRAFT"
SENT == "SENT"
PAID == "PAID"
PARTIALLY_PAID == "PARTIALLY_PAID"
CANCELLED == "CANCELLED"
OVERDUE == "OVERDUE"
ACCEPTED == "ACCEPTED"
REJECTED == "REJECTED"
CONVERTED == "CONVERTED"

DocumentStatus_ALL ==
    {DRAFT, SENT, PAID, PARTIALLY_PAID, CANCELLED, OVERDUE, ACCEPTED, REJECTED, CONVERTED}

DOCUMENT_NUMBER_PREFIX_Swapped(document_type) ==
    CASE document_type = INVOICE -> "INV"
      [] document_type = QUOTE -> "QUO"
      [] document_type = DELIVERY_NOTE -> "LS"
      [] document_type = ORDER_CONFIRMATION -> "AB"
      [] document_type = PARTIAL_INVOICE -> "INV"
      [] document_type = CREDIT_NOTE -> "GS"
      [] document_type = CANCELLATION -> "ST"
      [] OTHER -> "DOC"

DOCUMENT_NUMBER_PREFIX(document_type) ==
    CASE document_type = INVOICE -> "INV"
      [] document_type = QUOTE -> "QUO"
      [] document_type = DELIVERY_NOTE -> "LS"
      [] document_type = ORDER_CONFIRMATION -> "AB"
      [] document_type = PARTIAL_INVOICE -> "TINV"
      [] document_type = CREDIT_NOTE -> "GS"
      [] document_type = CANCELLATION -> "ST"
      [] OTHER -> "DOC"

MAX_REMINDER_LEVEL == 3

----------------------------------------------------------------------------
(* Arithmetic *)

Abs(x) == IF x < 0 THEN -x ELSE x

\* 0.01 EUR, the tolerance of the payment and partial-invoice checks
Tolerance == 10

\* n/d rounded to the nearest integer, ties to even (d > 0)
RoundDiv(n, d) ==
    LET q == n \div d
        r == n % d
    IN  IF 2 * r < d THEN q
        ELSE IF 2 * r > d THEN q + 1
        ELSE IF q % 2 = 0 THEN q ELSE q + 1

\* round(n/d, 2) of an amount of n/d mills: a multiple of 10 mills
Round2(n, d) == 10 * RoundDiv(n, 10 * d)

RECURSIVE SumOf(_, _)
SumOf(items, field) ==
    IF items = <<>> THEN 0 ELSE Head(items)[field] + SumOf(Tail(items), field)

----------------------------------------------------------------------------
(* Fixtures: tenants (companies), their customers and products *)

CompanyIds == {"t1", "t2"}

\* customers collection: customer_id -> company_id
CustomerCompany == [c \in {"c1", "c2"} |-> IF c = "c1" THEN "t1" ELSE "t2"]

\* products collection: product_id -> product (unit_price in mills, vat_rate in per cent)
ProductCatalog ==
    [p \in {"p1"} |-> [company_id |-> "t1", unit_price |-> 20, vat_rate |-> 0]]

\* customer_repo.find_by_id + tenant check of create_document
CustomerFound(company_id, customer_id) ==
    /\ customer_id \in DOMAIN CustomerCompany
    /\ CustomerCompany[customer_id] = company_id

----------------------------------------------------------------------------
(* app/models/document.py *)

new_line_item(product_id, quantity, unit_price, vat_rate, discount_percent) ==
    LET subtotal == Round2(quantity * unit_price, 1)
        discount_amount == Round2(subtotal * discount_percent, 100)
        net_amount == Round2(subtotal - discount_amount, 1)
        vat_amount == Round2(net_amount * vat_rate, 100)
        gross_amount == Round2(net_amount + vat_amount, 1)
    IN  [product_id |-> product_id,
         quantity |-> quantity,
         unit_price |-> unit_price,
         vat_rate |-> vat_rate,
         discount_percent |-> discount_percent,
         discount_amount |-> discount_amount,
         net_amount |-> net_amount,
         vat_amount |-> vat_amount,
         gross_amount |-> gross_amount]

NegativeTotalTypes == {CREDIT_NOTE, CANCELLATION}

\* the totals block without the negation for credit notes and cancellations
calc_totals_NoNegate(items, is_kleinunternehmer, document_type) ==
    LET total_net == Round2(SumOf(items, "net_amount"), 1)
        total_vat == IF is_kleinunternehmer THEN 0 ELSE Round2(SumOf(items, "vat_amount"), 1)
        total_gross == Round2(total_net + total_vat, 1)
    IN  [net |-> total_net, vat |-> total_vat, gross |-> total_gross,
         paid_amount |-> 0, remaining_amount |-> total_gross]

\* the totals block shared by new_document and DocumentService._calc_totals
calc_totals(items, is_kleinunternehmer, document_type) ==
    LET total_net == Round2(SumOf(items, "net_amount"), 1)
        total_vat == IF is_kleinunternehmer THEN 0 ELSE Round2(SumOf(items, "vat_amount"), 1)
        total_gross == Round2(total_net + total_vat, 1)
        neg == document_type \in NegativeTotalTypes
        net == IF neg THEN -Abs(total_net) ELSE total_net
        vat == IF neg THEN -Abs(total_vat) ELSE total_vat
        gross == IF neg THEN -Abs(total_gross) ELSE total_gross
    IN  [net |-> net, vat |-> vat, gross |-> gross,
         paid_amount |-> 0, remaining_amount |-> gross]

\* the zeroing of VAT that leaves the gross amount of the line as it was
ZeroVat_KeepGross(items) ==
    [i \in 1..Len(items) |-> [items[i] EXCEPT !.vat_amount = 0]]

\* the in-place zeroing of VAT on each line item for a Kleinunternehmer
ZeroVat(items) ==
    [i \in 1..Len(items) |->
        [items[i] EXCEPT !.vat_amount = 0, !.gross_amount = items[i].net_amount]]

new_document(company_id, customer_id, document_type, document_number, items, is_kleinunternehmer, notes, payment_terms_days, issue_date, service_date, due_date, related_document_id) ==
    [company_id |-> company_id,
     customer_id |-> customer_id,
     document_type |-> document_type,
     document_number |-> document_number,
     status |-> DRAFT,
     items |-> IF is_kleinunternehmer THEN ZeroVat(items) ELSE items,
     totals |-> calc_totals(items, is_kleinunternehmer, document_type),
     payments |-> <<>>,
     reminders |-> <<>>,
     is_kleinunternehmer |-> is_kleinunternehmer,
     notes |-> notes,
     payment_terms_days |-> payment_terms_days,
     issue_date |-> issue_date,
     service_date |-> service_date,
     due_date |-> due_date,
     related_document_id |-> related_document_id]

----------------------------------------------------------------------------
(* app/repositories/base.py, app/repositories/document_repository.py *)

\* a document id of a request that is no ObjectId (not 24 hex digits); the
\* ids of the model are integers, the malformed ones negative
MalformedId == -1

\* BaseRepository.find_by_id: ObjectId(document_id) raises
\* bson.errors.InvalidId, which no caller catches
InvalidId(document_id) == document_id < 0

\* BaseRepository.find_by_id: is there a document with this _id
Exists(d, document_id) == document_id \in 1..Len(d)

\* BaseRepository.insert_one: the new _id is Len(d) + 1
insert_one(d, document) == Append(d, document)

\* BaseRepository.update_one: $set of the given fields on one document
update_one(d, document_id, update_data) ==
    IF Exists(d, document_id)
    THEN [d EXCEPT ![document_id] =
            [k \in DOMAIN @ |-> IF k \in DOMAIN update_data THEN update_data[k] ELSE @[k]]]
    ELSE d

\* DocumentRepository.add_payment: $push payments, $inc paid_amount and remaining_amount
add_payment_NoRemaining(d, document_id, payment) ==
    IF Exists(d, document_id)
    THEN [d EXCEPT ![document_id].payments = Append(@, payment),
                   ![document_id].totals.paid_amount = @ + payment.amount]
    ELSE d

add_payment(d, document_id, payment) ==
    IF Exists(d, document_id)
    THEN [d EXCEPT ![document_id].payments = Append(@, payment),
                   ![document_id].totals.paid_amount = @ + payment.amount,
                   ![document_id].totals.remaining_amount = @ - payment.amount]
    ELSE d

\* DocumentRepository.add_reminder: $push reminders
add_reminder(d, document_id, reminder) ==
    IF Exists(d, document_id)
    THEN [d EXCEPT ![document_id].reminders = Append(@, reminder)]
    ELSE d

\* DocumentRepository.find_related_documents: ids of the documents of the
\* company whose related_document_id is the given id
find_related_documents(d, company_id, related_document_id) ==
    {i \in 1..Len(d) : /\ d[i].company_id = company_id
                       /\ d[i].related_document_id = related_document_id}

\* the counter document's key
CounterTypeOf(document_type) ==
    CASE document_type = INVOICE -> "document_invoice"
      [] document_type = QUOTE -> "document_quote"
      [] document_type = DELIVERY_NOTE -> "document_delivery_note"
      [] document_type = ORDER_CONFIRMATION -> "document_order_confirmation"
      [] document_type = PARTIAL_INVOICE -> "document_partial_invoice"
      [] document_type = CREDIT_NOTE -> "document_credit_note"
      [] document_type = CANCELLATION -> "document_cancellation"

CounterTypes == {CounterTypeOf(ty) : ty \in DocumentType_ALL}
CounterKeys == CompanyIds \X CounterTypes

\* CounterRepository.get_next_number: find_one_and_update with $inc and
\* upsert, one atomic store operation returning the document AFTER the update
get_next_number_NoInc(c, company_id, counter_type) ==
    [counters |-> c,
     sequence |-> IF c[<<company_id, counter_type>>] = 0 THEN 1 ELSE c[<<company_id, counter_type>>]]

get_next_number(c, company_id, counter_type) ==
    [counters |-> [c EXCEPT ![<<company_id, counter_type>>] = @ + 1],
     sequence |-> c[<<company_id, counter_type>>] + 1]

----------------------------------------------------------------------------
(* DocumentService private helpers *)

RECURSIVE Digits(_)
Digits(n) == IF n < 10 THEN <<n>> ELSE Append(Digits(n \div 10), n % 10)

RECURSIVE ZeroPad(_, _)
ZeroPad(ds, width) == IF Len(ds) >= width THEN ds ELSE ZeroPad(<<0>> \o ds, width)

\* f"{prefix}-{seq:06d}"
FormatNumber(prefix, sequence) == [prefix |-> prefix, digits |-> ZeroPad(Digits(sequence), 6)]

\* _generate_document_number: the number and the counters after the call
generate_document_number(c, company_id, document_type) ==
    LET prefix == DOCUMENT_NUMBER_PREFIX(document_type)
        counter_type == CounterTypeOf(document_type)
        got == get_next_number(c, company_id, counter_type)
    IN  [counters |-> got.counters, number |-> FormatNumber(prefix, got.sequence)]

\* _calc_due_date: issue_date + payment_terms_days days (a date is a named
\* day and an offset in days)
calc_due_date(issue_date, payment_terms_days) ==
    [from |-> issue_date.from, days |-> issue_date.days + payment_terms_days]

\* datetime.utcnow().strftime("%Y-%m-%d")
Today == [from |-> "today", days |-> 0]

\* the empty date string
NoDate == [from |-> "", days |-> 0]

\* a date string of a request that is no "%Y-%m-%d" date (the date fields
\* of the request bodies are unvalidated strings)
BadDate == [from |-> "garbage", days |-> 0]

\* _calc_due_date: datetime.strptime raises ValueError, which no caller
\* catches, for an issue_date that is no date
ValueError(issue_date) == issue_date.from # "today"

invoice_transitions(current) ==
    CASE current = DRAFT -> {SENT, CANCELLED}
      [] current = SENT -> {PAID, PARTIALLY_PAID, OVERDUE, CANCELLED}
      [] current = PARTIALLY_PAID -> {PAID, OVERDUE, CANCELLED}
      [] current = OVERDUE -> {PAID, PARTIALLY_PAID, CANCELLED}
      [] OTHER -> {}

\* the `allowed` table of _validate_status_transition
valid_targets_Loose(doc_type, current) ==
    CASE doc_type \in {INVOICE, PARTIAL_INVOICE} -> invoice_transitions(current)
      [] doc_type = QUOTE ->
            (CASE current = DRAFT -> {SENT, CANCELLED}
               [] current = SENT -> {ACCEPTED, REJECTED, CANCELLED}
               [] current = ACCEPTED -> {CONVERTED}
               [] OTHER -> {})
      [] OTHER -> IF current = DRAFT THEN {SENT, CANCELLED} ELSE {}

valid_targets(doc_type, current) ==
    CASE doc_type \in {INVOICE, PARTIAL_INVOICE} -> invoice_transitions(current)
      [] doc_type = QUOTE ->
            (CASE current = DRAFT -> {SENT, CANCELLED}
               [] current = SENT -> {ACCEPTED, REJECTED, CANCELLED}
               [] current = ACCEPTED -> {CONVERTED}
               [] OTHER -> {})
      [] doc_type \in {DELIVERY_NOTE, ORDER_CONFIRMATION, CREDIT_NOTE} ->
            IF current = DRAFT THEN {SENT, CANCELLED} ELSE {}
      [] doc_type = CANCELLATION ->
            IF current = DRAFT THEN {SENT} ELSE {}
      [] OTHER -> {}

\* _validate_status_transition: TRUE when no exception is raised
validate_status_transition(doc_type, current, target) ==
    target \in valid_targets(doc_type, current)

\* presence of a key in a request dict (a value that is not None)
Has(data, key) == key \in DOMAIN data

\* _resolve_line_items for one item: the product lookup fails, or the line
ProductMissing(company_id, item_dict) ==
    /\ Has(item_dict, "product_id")
    /\ \/ item_dict.product_id \notin DOMAIN ProductCatalog
       \/ ProductCatalog[item_dict.product_id].company_id # company_id

resolve_line_item(company_id, item_dict, is_kleinunternehmer) ==
    LET product_id == IF Has(item_dict, "product_id") THEN item_dict.product_id ELSE ""
        unit_price == IF Has(item_dict, "unit_price") THEN item_dict.unit_price
                      ELSE IF product_id # "" THEN ProductCatalog[product_id].unit_price
                      ELSE 0
        vat_rate == IF Has(item_dict, "vat_rate") THEN item_dict.vat_rate
                    ELSE IF product_id # "" THEN ProductCatalog[product_id].vat_rate
                    ELSE 19
        discount_percent == IF Has(item_dict, "discount_percent")
                            THEN item_dict.discount_percent ELSE 0
    IN  new_line_item(product_id, item_dict.quantity, unit_price,
                      IF is_kleinunternehmer THEN 0 ELSE vat_rate, discount_percent)

\* _resolve_line_items: NotFound when a product is missing, else the lines
resolve_fails(company_id, items_data) ==
    \E i \in 1..Len(items_data) : ProductMissing(company_id, items_data[i])

resolve_line_items(company_id, items_data, is_kleinunternehmer) ==
    [i \in 1..Len(items_data) |->
        resolve_line_item(company_id, items_data[i], is_kleinunternehmer)]

----------------------------------------------------------------------------
(* DocumentService operations.  Each action is one service call, executed  *)
(* to completion.  `last` is a history variable: for an operation in       *)
(* `observed` it records the call and how it ended, "ok" or the kind of    *)
(* the HTTPException raised; any other call resets it to NoCall.           *)

NoCall == [op |-> "none", result |-> "none"]

\* no service call is in flight: every handler below runs to completion
NoCalls == <<>>

Outcome(op, result) ==
    last' = IF op \in observed THEN [op |-> op, result |-> result] ELSE NoCall

Ok(op) == Outcome(op, "ok")

Fail(op, kind) ==
    /\ Outcome(op, kind)
    /\ UNCHANGED <<docs, counters>>

\* get_document: the document exists and belongs to the caller's company
Found(company_id, document_id) ==
    /\ Exists(docs, document_id)
    /\ docs[document_id].company_id = company_id

\* room for one more document (bound of the model)
Room == Len(docs) < capacity

Opt(data, key, default) == IF Has(data, key) THEN data[key] ELSE default

\* data.get(key) or default, for a date field: the empty string is falsy
OrDate(data, key, default) ==
    IF Has(data, key) /\ data[key] # NoDate THEN data[key] ELSE default

\* create_document drawing the document number before it looks at the customer
CreateDocument_NumberFirst(company_id, data) ==
    /\ UNCHANGED <<companies, observed, capacity, calls, allocVars>>
    /\ LET gen == generate_document_number(counters, company_id, data.document_type)
       IN  IF ~CustomerFound(company_id, data.customer_id) \/ resolve_fails(company_id, data.items)
           THEN /\ counters' = gen.counters
                /\ UNCHANGED docs
                /\ Outcome("create", "NotFound")
           ELSE LET is_kleinunternehmer == companies[company_id].is_kleinunternehmer
                    resolved_items == resolve_line_items(company_id, data.items, is_kleinunternehmer)
                    issue_date == OrDate(data, "issue_date", Today)
                    payment_terms_days == Opt(data, "payment_terms_days", 14)
                    due_date == OrDate(data, "due_date", calc_due_date(issue_date, payment_terms_days))
                    doc == new_document(company_id, data.customer_id, data.document_type,
                                        gen.number, resolved_items, is_kleinunternehmer,
                                        Opt(data, "notes", <<"">>), payment_terms_days, issue_date,
                                        Opt(data, "service_date", NoDate), due_date,
                                        Opt(data, "related_document_id", 0))
                IN  /\ Room
                    /\ counters' = gen.counters
                    /\ docs' = insert_one(docs, doc)
                    /\ Ok("create")

\* create_document
CreateDocument(company_id, data) ==
    /\ UNCHANGED <<companies, observed, capacity, calls, allocVars>>
    /\ IF ~CustomerFound(company_id, data.customer_id)
       THEN Fail("create", "NotFound")
       ELSE IF resolve_fails(company_id, data.items)
       THEN Fail("create", "NotFound")
       ELSE LET is_kleinunternehmer == companies[company_id].is_kleinunternehmer
                resolved_items == resolve_line_items(company_id, data.items, is_kleinunternehmer)
                gen == generate_document_number(counters, company_id, data.document_type)
                issue_date == OrDate(data, "issue_date", Today)
                payment_terms_days == Opt(data, "payment_terms_days", 14)
                due_date == OrDate(data, "due_date", calc_due_date(issue_date, payment_terms_days))
                doc == new_document(company_id, data.customer_id, data.document_type,
                                    gen.number, resolved_items, is_kleinunternehmer,
                                    Opt(data, "notes", <<"">>), payment_terms_days, issue_date,
                                    Opt(data, "service_date", NoDate), due_date,
                                    Opt(data, "related_document_id", 0))
            IN  IF OrDate(data, "due_date", NoDate) = NoDate /\ ValueError(issue_date)
                THEN \* raised after the document number was drawn
                     /\ counters' = gen.counters
                     /\ UNCHANGED docs
                     /\ Outcome("create", "ValueError")
                ELSE /\ Room
                     /\ counters' = gen.counters
                     /\ docs' = insert_one(docs, doc)
                     /\ Ok("create")

\* get_document
GetDocument(company_id, document_id) ==
    /\ UNCHANGED <<companies, observed, capacity, calls, allocVars>>
    /\ IF InvalidId(document_id)
       THEN Fail("get", "InvalidId")
       ELSE IF ~Found(company_id, document_id)
       THEN Fail("get", "NotFound")
       ELSE Ok("get") /\ UNCHANGED <<docs, counters>>

EditableFields ==
    {"customer_id", "notes", "payment_terms_days", "issue_date", "service_date", "due_date"}

\* the update_fields dict of update_document
update_fields(company_id, doc, data) ==
    LET is_klein == companies[company_id].is_kleinunternehmer
        resolved == resolve_line_items(company_id, data.items, is_klein)
        itemFields == IF Has(data, "items") THEN {"items", "totals"} ELSE {}
        plain == EditableFields \cap DOMAIN data
    IN  [k \in itemFields \cup plain |->
            IF k = "items" THEN resolved
            ELSE IF k = "totals" THEN calc_totals(resolved, is_klein, doc.document_type)
            ELSE data[k]]

\* the DRAFT check of update_document: TRUE when the edit is refused
update_refused_Never(doc) == FALSE

update_refused(doc) == doc.status # DRAFT

\* update_document
UpdateDocument(company_id, document_id, data) ==
    /\ UNCHANGED <<companies, observed, capacity, calls, allocVars>>
    /\ IF InvalidId(document_id)
       THEN Fail("update", "InvalidId")
       ELSE IF ~Found(company_id, document_id)
       THEN Fail("update", "NotFound")
       ELSE IF update_refused(docs[document_id])
       THEN Fail("update", "InvalidState")
       ELSE IF Has(data, "items") /\ resolve_fails(company_id, data.items)
       THEN Fail("update", "NotFound")
       ELSE LET fields == update_fields(company_id, docs[document_id], data)
            IN  IF DOMAIN fields = {}
                THEN Fail("update", "NoOp")
                ELSE /\ docs' = update_one(docs, document_id, fields)
                     /\ UNCHANGED counters
                     /\ Ok("update")

\* _create_order_confirmation_from_quote raises ValueError: the quote has no
\* due_date and its issue_date is no date
order_confirmation_fails(quote) ==
    /\ quote.due_date = NoDate
    /\ quote.issue_date # NoDate
    /\ ValueError(quote.issue_date)

\* _create_order_confirmation_from_quote: the counters and documents after it
create_order_confirmation_from_quote(d, c, company_id, quote_id, quote) ==
    LET gen == generate_document_number(c, company_id, ORDER_CONFIRMATION)
        issue_date == IF quote.issue_date # NoDate THEN quote.issue_date ELSE Today
        due_date == IF quote.due_date # NoDate THEN quote.due_date
                    ELSE calc_due_date(issue_date, quote.payment_terms_days)
        order_doc == new_document(company_id, quote.customer_id, ORDER_CONFIRMATION,
                                  gen.number, quote.items, quote.is_kleinunternehmer,
                                  <<"Auftragsbestaetigung zu Angebot", quote.document_number>>,
                                  quote.payment_terms_days, issue_date,
                                  quote.service_date, due_date, quote_id)
    IN  [docs |-> insert_one(d, order_doc), counters |-> gen.counters]

\* update_status
UpdateStatus(company_id, document_id, new_status) ==
    /\ UNCHANGED <<companies, observed, capacity, calls, allocVars>>
    /\ IF InvalidId(document_id)
       THEN Fail("updateStatus", "InvalidId")
       ELSE IF ~Found(company_id, document_id)
       THEN Fail("updateStatus", "NotFound")
       ELSE LET doc == docs[document_id]
            IN  IF ~validate_status_transition(doc.document_type, doc.status, new_status)
                THEN Fail("updateStatus", "InvalidTransition")
                ELSE LET updated == update_one(docs, document_id, [status |-> new_status])
                     IN  IF doc.document_type = QUOTE /\ new_status = ACCEPTED
                         THEN LET oc == create_order_confirmation_from_quote(
                                            updated, counters, company_id, document_id,
                                            updated[document_id])
                              IN  IF order_confirmation_fails(updated[document_id])
                                  THEN \* raised after the status was written and
                                       \* the order confirmation's number drawn
                                       /\ docs' = updated
                                       /\ counters' = oc.counters
                                       /\ Outcome("updateStatus", "ValueError")
                                  ELSE /\ Room
                                       /\ docs' = oc.docs
                                       /\ counters' = oc.counters
                                       /\ Ok("updateStatus")
                         ELSE /\ docs' = updated
                              /\ UNCHANGED counters
                              /\ Ok("updateStatus")

\* convert_quote_to_invoice
ConvertQuoteToInvoice(company_id, quote_id, data) ==
    /\ UNCHANGED <<companies, observed, capacity, calls, allocVars>>
    /\ IF InvalidId(quote_id)
       THEN Fail("convert", "InvalidId")
       ELSE IF ~Found(company_id, quote_id)
       THEN Fail("convert", "NotFound")
       ELSE LET quote == docs[quote_id]
            IN  IF quote.document_type # QUOTE
                THEN Fail("convert", "InvalidState")
                ELSE IF quote.status # ACCEPTED
                THEN Fail("convert", "InvalidState")
                ELSE LET gen == generate_document_number(counters, company_id, INVOICE)
                         issue_date == OrDate(data, "issue_date", Today)
                         payment_terms_days == Opt(data, "payment_terms_days", 14)
                         due_date == OrDate(data, "due_date",
                                            calc_due_date(issue_date, payment_terms_days))
                         invoice_doc == new_document(company_id, quote.customer_id, INVOICE,
                                            gen.number, quote.items, quote.is_kleinunternehmer,
                                            quote.notes, payment_terms_days, issue_date,
                                            NoDate, due_date, quote_id)
                     IN  IF OrDate(data, "due_date", NoDate) = NoDate /\ ValueError(issue_date)
                         THEN \* raised after the invoice number was drawn
                              /\ counters' = gen.counters
                              /\ UNCHANGED docs
                              /\ Outcome("convert", "ValueError")
                         ELSE /\ Room
                              /\ counters' = gen.counters
                              /\ docs' = update_one(insert_one(docs, invoice_doc), quote_id,
                                                    [status |-> CONVERTED])
                              /\ Ok("convert")

\* the status add_payment derives from the paid amount
status_after_payment_Le(doc) ==
    LET new_paid == doc.totals.paid_amount
        gross == Abs(doc.totals.gross)
    IN  IF Abs(new_paid - gross) <= Tolerance THEN PAID
        ELSE IF new_paid > 0 THEN PARTIALLY_PAID
        ELSE doc.status

status_after_payment(doc) ==
    LET new_paid == doc.totals.paid_amount
        gross == Abs(doc.totals.gross)
    IN  IF Abs(new_paid - gross) < Tolerance THEN PAID
        ELSE IF new_paid > 0 THEN PARTIALLY_PAID
        ELSE doc.status

\* the checks of add_payment before the payment is recorded: "ok" or the error
payment_check_NoOverpay(doc, amount) ==
    IF doc.document_type \notin {INVOICE, PARTIAL_INVOICE} THEN "InvalidState"
    ELSE IF doc.status \in {CANCELLED, PAID, DRAFT} THEN "InvalidState"
    ELSE "ok"

\* add_payment's checks without the check of the document type
payment_check_AnyType(doc, amount) ==
    IF doc.status \in {CANCELLED, PAID, DRAFT} THEN "InvalidState"
    ELSE IF amount > doc.totals.remaining_amount + Tolerance THEN "Overpayment"
    ELSE "ok"

payment_check(doc, amount) ==
    IF doc.document_type \notin {INVOICE, PARTIAL_INVOICE} THEN "InvalidState"
    ELSE IF doc.status \in {CANCELLED, PAID, DRAFT} THEN "InvalidState"
    ELSE IF amount > doc.totals.remaining_amount + Tolerance THEN "Overpayment"
    ELSE "ok"

\* the cascade of add_payment onto the parent invoice of a PAID partial invoice
cascade_to_parent_NoStatus(d, company_id, updated, data) ==
    LET parent_id == updated.related_document_id
        found == /\ Exists(d, parent_id)
                 /\ d[parent_id].company_id = company_id
    IN  IF ~found THEN d
        ELSE IF d[parent_id].document_type # INVOICE THEN d
        ELSE add_payment(d, parent_id,
                         [amount |-> Abs(updated.totals.gross),
                          date |-> Opt(data, "date", Today),
                          method |-> Opt(data, "method", "BANK"),
                          reference |-> <<"Abschlagsrechnung", updated.document_number>>])

cascade_to_parent(d, company_id, updated, data) ==
    LET parent_id == updated.related_document_id
        found == /\ Exists(d, parent_id)
                 /\ d[parent_id].company_id = company_id
    IN  IF ~found THEN d    \* HTTPException of get_document swallowed
        ELSE IF d[parent_id].document_type # INVOICE THEN d
        ELSE LET partial_gross == Abs(updated.totals.gross)
                 parent_payment == [amount |-> partial_gross,
                                    date |-> Opt(data, "date", Today),
                                    method |-> Opt(data, "method", "BANK"),
                                    reference |-> <<"Abschlagsrechnung", updated.document_number>>]
                 d1 == add_payment(d, parent_id, parent_payment)
                 parent_paid == d1[parent_id].totals.paid_amount
                 parent_gross == Abs(d1[parent_id].totals.gross)
             IN  IF Abs(parent_paid - parent_gross) < Tolerance
                 THEN update_one(d1, parent_id, [status |-> PAID])
                 ELSE IF parent_paid > 0
                 THEN update_one(d1, parent_id, [status |-> PARTIALLY_PAID])
                 ELSE d1

\* add_payment
AddPayment(company_id, document_id, data) ==
    /\ UNCHANGED <<companies, observed, capacity, calls, allocVars, counters>>
    /\ IF InvalidId(document_id)
       THEN Fail("addPayment", "InvalidId")
       ELSE IF ~Found(company_id, document_id)
       THEN Fail("addPayment", "NotFound")
       ELSE LET check == payment_check(docs[document_id], data.amount)
            IN  IF check # "ok"
                THEN Fail("addPayment", check)
                ELSE LET payment_record == [amount |-> data.amount,
                                            date |-> Opt(data, "date", Today),
                                            method |-> Opt(data, "method", "BANK")]
                         d1 == add_payment(docs, document_id, payment_record)
                         new_status == status_after_payment(d1[document_id])
                         d2 == IF new_status # d1[document_id].status
                               THEN update_one(d1, document_id, [status |-> new_status])
                               ELSE d1
                         updated == d2[document_id]
                         cascades == /\ updated.document_type = PARTIAL_INVOICE
                                     /\ new_status = PAID
                                     /\ updated.related_document_id # 0
                     IN  IF cascades /\ InvalidId(updated.related_document_id)
                         THEN \* InvalidId is no HTTPException: it leaves the try block
                              /\ docs' = d2
                              /\ Outcome("addPayment", "InvalidId")
                         ELSE /\ docs' = IF cascades
                                         THEN cascade_to_parent(d2, company_id, updated, data)
                                         ELSE d2
                              /\ Ok("addPayment")

\* add_reminder's checks without the limit on the level
reminder_check_NoLimit(doc) ==
    IF doc.document_type \notin {INVOICE, PARTIAL_INVOICE} THEN "InvalidState"
    ELSE IF doc.status \notin {SENT, OVERDUE, PARTIALLY_PAID} THEN "InvalidState"
    ELSE "ok"

\* add_reminder's checks without the check of the status
reminder_check_AnyStatus(doc) ==
    IF doc.document_type \notin {INVOICE, PARTIAL_INVOICE} THEN "InvalidState"
    ELSE IF Len(doc.reminders) + 1 > MAX_REMINDER_LEVEL THEN "LimitExceeded"
    ELSE "ok"

\* the checks of add_reminder before the reminder is recorded
reminder_check(doc) ==
    IF doc.document_type \notin {INVOICE, PARTIAL_INVOICE} THEN "InvalidState"
    ELSE IF doc.status \notin {SENT, OVERDUE, PARTIALLY_PAID} THEN "InvalidState"
    ELSE IF Len(doc.reminders) + 1 > MAX_REMINDER_LEVEL THEN "LimitExceeded"
    ELSE "ok"

\* add_reminder
AddReminder(company_id, document_id, data) ==
    /\ UNCHANGED <<companies, observed, capacity, calls, allocVars, counters>>
    /\ IF InvalidId(document_id)
       THEN Fail("addReminder", "InvalidId")
       ELSE IF ~Found(company_id, document_id)
       THEN Fail("addReminder", "NotFound")
       ELSE LET check == reminder_check(docs[document_id])
            IN  IF check # "ok"
                THEN Fail("addReminder", check)
                ELSE LET reminder_record == [level |-> Len(docs[document_id].reminders) + 1,
                                             date |-> Today,
                                             fee |-> Opt(data, "fee", 0)]
                         d1 == add_reminder(docs, document_id, reminder_record)
                     IN  /\ docs' = IF d1[document_id].status \notin {OVERDUE, PARTIALLY_PAID}
                                    THEN update_one(d1, document_id, [status |-> OVERDUE])
                                    ELSE d1
                         /\ Ok("addReminder")

\* cancel_document's checks without the check of the document type
mirror_check_AnyType(doc) ==
    IF doc.status = CANCELLED THEN "InvalidState"
    ELSE "ok"

\* the checks shared by cancel_document and create_credit_note
mirror_check(doc) ==
    IF doc.document_type \notin {INVOICE, PARTIAL_INVOICE} THEN "InvalidState"
    ELSE IF doc.status = CANCELLED THEN "InvalidState"
    ELSE "ok"

\* the CANCELLATION / CREDIT_NOTE document built from the source document
mirror_document(doc, document_id, document_type, number, label) ==
    new_document(doc.company_id, doc.customer_id, document_type, number, doc.items,
                 doc.is_kleinunternehmer, <<label, doc.document_number>>, 14,
                 Today, NoDate, Today, document_id)

\* cancel_document
CancelDocument(company_id, document_id) ==
    /\ UNCHANGED <<companies, observed, capacity, calls, allocVars>>
    /\ IF InvalidId(document_id)
       THEN Fail("cancel", "InvalidId")
       ELSE IF ~Found(company_id, document_id)
       THEN Fail("cancel", "NotFound")
       ELSE LET doc == docs[document_id]
                check == mirror_check(doc)
            IN  IF check # "ok"
                THEN Fail("cancel", check)
                ELSE LET d1 == update_one(docs, document_id, [status |-> CANCELLED])
                         gen == generate_document_number(counters, company_id, CANCELLATION)
                         cancel_doc == mirror_document(doc, document_id, CANCELLATION,
                                                       gen.number, "Stornierung zu")
                     IN  /\ Room
                         /\ counters' = gen.counters
                         /\ docs' = insert_one(d1, cancel_doc)
                         /\ Ok("cancel")

\* create_credit_note
CreateCreditNote(company_id, document_id) ==
    /\ UNCHANGED <<companies, observed, capacity, calls, allocVars>>
    /\ IF InvalidId(document_id)
       THEN Fail("createCreditNote", "InvalidId")
       ELSE IF ~Found(company_id, document_id)
       THEN Fail("createCreditNote", "NotFound")
       ELSE LET doc == docs[document_id]
                check == mirror_check(doc)
            IN  IF check # "ok"
                THEN Fail("createCreditNote", check)
                ELSE LET gen == generate_document_number(counters, company_id, CREDIT_NOTE)
                         credit_doc == mirror_document(doc, document_id, CREDIT_NOTE,
                                                       gen.number, "Gutschrift zu")
                     IN  /\ Room
                         /\ counters' = gen.counters
                         /\ docs' = insert_one(docs, credit_doc)
                         /\ Ok("createCreditNote")

\* get_related_documents: what a successful call returns, the id of the
\* parent (0 for None) and the ids of the children
related_documents(d, company_id, document_id) ==
    LET related_id == d[document_id].related_document_id
        parent_found == /\ related_id # 0
                        /\ Exists(d, related_id)
                        /\ d[related_id].company_id = company_id
    IN  [parent |-> IF parent_found THEN related_id ELSE 0,
         children |-> find_related_documents(d, company_id, document_id)]

\* get_related_documents
GetRelatedDocuments(company_id, document_id) ==
    /\ UNCHANGED <<companies, observed, capacity, calls, allocVars>>
    /\ IF InvalidId(document_id)
       THEN Fail("getRelated", "InvalidId")
       ELSE IF ~Found(company_id, document_id)
       THEN Fail("getRelated", "NotFound")
       ELSE IF /\ docs[document_id].related_document_id # 0
               /\ InvalidId(docs[document_id].related_document_id)
       THEN Fail("getRelated", "InvalidId")
       ELSE Ok("getRelated") /\ UNCHANGED <<docs, counters>>

RECURSIVE SumAbsGross(_, _)
SumAbsGross(d, ids) ==
    IF ids = {} THEN 0
    ELSE LET i == CHOOSE j \in ids : TRUE
         IN  Abs(d[i].totals.gross) + SumAbsGross(d, ids \ {i})

\* create_partial_invoice's checks without the cap on the sum
partial_check_NoCap(d, company_id, document_id, amount) ==
    LET doc == d[document_id]
    IN  IF doc.document_type # INVOICE THEN "InvalidState"
        ELSE IF doc.status = CANCELLED THEN "InvalidState"
        ELSE "ok"

\* the checks of create_partial_invoice before anything is written
partial_check(d, company_id, document_id, amount) ==
    LET doc == d[document_id]
        existing_partials == {i \in find_related_documents(d, company_id, document_id) :
                                d[i].document_type = PARTIAL_INVOICE}
        partial_sum == SumAbsGross(d, existing_partials)
        original_gross == Abs(doc.totals.gross)
    IN  IF doc.document_type # INVOICE THEN "InvalidState"
        ELSE IF doc.status = CANCELLED THEN "InvalidState"
        ELSE IF partial_sum + amount > original_gross + Tolerance THEN "CapExceeded"
        ELSE "ok"

\* the single line item create_partial_invoice derives from the amount
partial_line_item(requested_amount, is_kleinunternehmer) ==
    LET vat_rate == IF is_kleinunternehmer THEN 0 ELSE 19
        net_amount == IF vat_rate # 0 THEN Round2(requested_amount * 100, 100 + vat_rate)
                      ELSE requested_amount
    IN  new_line_item("", 1, net_amount, vat_rate, 0)

\* create_partial_invoice
CreatePartialInvoice(company_id, document_id, data) ==
    /\ UNCHANGED <<companies, observed, capacity, calls, allocVars>>
    /\ IF InvalidId(document_id)
       THEN Fail("createPartialInvoice", "InvalidId")
       ELSE IF ~Found(company_id, document_id)
       THEN Fail("createPartialInvoice", "NotFound")
       ELSE LET doc == docs[document_id]
                check == partial_check(docs, company_id, document_id, data.amount)
                is_kleinunternehmer == companies[company_id].is_kleinunternehmer
                given == Has(data, "items") /\ data.items # <<>>
            IN  IF check # "ok"
                THEN Fail("createPartialInvoice", check)
                ELSE IF given /\ resolve_fails(company_id, data.items)
                THEN Fail("createPartialInvoice", "NotFound")
                ELSE LET resolved_items ==
                             IF given
                             THEN resolve_line_items(company_id, data.items, is_kleinunternehmer)
                             ELSE <<partial_line_item(data.amount, is_kleinunternehmer)>>
                         gen == generate_document_number(counters, company_id, PARTIAL_INVOICE)
                         payment_terms_days == Opt(data, "payment_terms_days", 14)
                         notes == IF Has(data, "notes") /\ data.notes # <<"">>
                                  THEN data.notes
                                  ELSE <<"Abschlagsrechnung zu", doc.document_number>>
                         partial_doc == new_document(company_id, doc.customer_id,
                                            PARTIAL_INVOICE, gen.number, resolved_items,
                                            is_kleinunternehmer, notes, payment_terms_days,
                                            Today, NoDate,
                                            calc_due_date(Today, payment_terms_days),
                                            document_id)
                     IN  /\ Room
                         /\ counters' = gen.counters
                         /\ docs' = insert_one(docs, partial_doc)
                         /\ Ok("createPartialInvoice")

----------------------------------------------------------------------------
(* Specification Spec: service calls executed one at a time by the callers *)
(* of two companies.                                                       *)

\* line item requests (LineItemCreate): free-text items of 1.00 EUR and of
\* 0.50 EUR, both at a VAT rate of 0 %
ItemA == [quantity |-> 1, unit_price |-> 1000, vat_rate |-> 0, discount_percent |-> 0]
ItemB == [quantity |-> 1, unit_price |-> 500, vat_rate |-> 0, discount_percent |-> 0]

DocIds == 1..MaxDocs

\* the document ids of requests: of stored documents, of documents not yet
\* stored, and a malformed one
RequestIds == DocIds \cup {MalformedId}

CreateRequests ==
    {[document_type |-> ty, customer_id |-> c, items |-> <<ItemA>>] :
        ty \in {INVOICE, QUOTE, DELIVERY_NOTE}, c \in DOMAIN CustomerCompany}

UpdateRequests ==
    { [x \in {} |-> 0],
      [items |-> <<ItemB>>] }

PaymentRequests == {[amount |-> a] : a \in {500, 1000}}

ReminderRequests == {[fee |-> 0]}

PartialRequests == {[amount |-> a] : a \in {500, 1000}}

ConvertRequests == {[x \in {} |-> 0]}

StoreInit ==
    /\ docs = <<>>
    /\ counters = [k \in CounterKeys |-> 0]
    /\ companies = [c \in CompanyIds |-> [is_kleinunternehmer |-> (c = "t2")]]

AllocIdle ==
    /\ pc = <<>>
    /\ seqOf = <<>>
    /\ issued = <<>>
    /\ base = <<>>

Operations ==
    {"create", "get", "update", "updateStatus", "convert", "addPayment", "addReminder",
     "cancel", "createCreditNote", "getRelated", "createPartialInvoice"}

Init ==
    /\ StoreInit
    /\ last = NoCall
    /\ observed = {}
    /\ capacity = MaxDocs
    /\ calls = NoCalls
    /\ AllocIdle

Next ==
    \/ \E c \in CompanyIds, data \in CreateRequests : CreateDocument(c, data)
    \/ \E c \in CompanyIds, id \in DocIds : GetDocument(c, id)
    \/ \E c \in CompanyIds, id \in DocIds, data \in UpdateRequests : UpdateDocument(c, id, data)
    \/ \E c \in CompanyIds, id \in DocIds, st \in DocumentStatus_ALL : UpdateStatus(c, id, st)
    \/ \E c \in CompanyIds, id \in DocIds, data \in ConvertRequests :
            ConvertQuoteToInvoice(c, id, data)
    \/ \E c \in CompanyIds, id \in DocIds, data \in PaymentRequests : AddPayment(c, id, data)
    \/ \E c \in CompanyIds, id \in DocIds, data \in ReminderRequests : AddReminder(c, id, data)
    \/ \E c \in CompanyIds, id \in DocIds : CancelDocument(c, id)
    \/ \E c \in CompanyIds, id \in DocIds : CreateCreditNote(c, id)
    \/ \E c \in CompanyIds, id \in DocIds : GetRelatedDocuments(c, id)
    \/ \E c \in CompanyIds, id \in DocIds, data \in PartialRequests :
            CreatePartialInvoice(c, id, data)

Spec == Init /\ [][Next]_vars

----------------------------------------------------------------------------
(* Specification SpecAlloc: MaxWorkers coroutines run                      *)
(* _generate_document_number concurrently.  A coroutine yields only at its *)
(* await: the request for the store's find_one_and_update, which the store *)
(* executes atomically, and the resumption that formats the number.        *)

Workers == 1..MaxWorkers

AllocTargets == {<<"t1", INVOICE>>, <<"t1", QUOTE>>, <<"t2", INVOICE>>}

KeyOf(target) == <<target[1], CounterTypeOf(target[2])>>

InitAlloc ==
    /\ docs = <<>>
    /\ companies = [c \in CompanyIds |-> [is_kleinunternehmer |-> (c = "t2")]]
    /\ last = NoCall
    /\ observed = {}
    /\ capacity = MaxDocs
    /\ calls = NoCalls
    /\ \E k \in 0..MaxIssued :
          counters = [key \in CounterKeys |->
                        IF \E t \in AllocTargets : KeyOf(t) = key THEN k ELSE 0]
    /\ base = counters
    /\ pc = [w \in Workers |-> "idle"]
    /\ seqOf = [w \in Workers |-> [target |-> <<"", "">>, sequence |-> 0]]
    /\ issued = <<>>

\* the coroutine is called and awaits counter_repo.get_next_number
AllocCall(w, target) ==
    /\ pc[w] = "idle"
    /\ pc' = [pc EXCEPT ![w] = "awaiting"]
    /\ seqOf' = [seqOf EXCEPT ![w].target = target]
    /\ UNCHANGED <<docs, counters, companies, last, observed, capacity, calls, issued, base>>

\* the store executes the find_one_and_update of get_next_number
AllocIncrement(w) ==
    /\ pc[w] = "awaiting"
    /\ LET got == get_next_number(counters, seqOf[w].target[1],
                                  CounterTypeOf(seqOf[w].target[2]))
       IN  /\ counters' = got.counters
           /\ seqOf' = [seqOf EXCEPT ![w].sequence = got.sequence]
    /\ pc' = [pc EXCEPT ![w] = "resumed"]
    /\ UNCHANGED <<docs, companies, last, observed, capacity, calls, issued, base>>

\* the coroutine resumes and returns f"{prefix}-{seq:06d}"
AllocReturn(w) ==
    /\ pc[w] = "resumed"
    /\ issued' = Append(issued,
                        [target |-> seqOf[w].target,
                         number |-> FormatNumber(DOCUMENT_NUMBER_PREFIX(seqOf[w].target[2]),
                                                 seqOf[w].sequence)])
    /\ pc' = [pc EXCEPT ![w] = "done"]
    /\ UNCHANGED <<docs, counters, companies, last, observed, capacity, calls, seqOf, base>>

NextAlloc ==
    \/ \E w \in Workers, target \in AllocTargets : AllocCall(w, target)
    \/ \E w \in Workers : AllocIncrement(w)
    \/ \E w \in Workers : AllocReturn(w)

SpecAlloc == InitAlloc /\ [][NextAlloc]_vars

----------------------------------------------------------------------------
(* Specification SpecStatus: documents of every type are created and their *)
(* status is set through update_status, whose outcome is observed.         *)

StatusCreateRequests ==
    {[document_type |-> ty, customer_id |-> "c1", items |-> <<ItemA>>] : ty \in DocumentType_ALL}

\* DocumentStatusUpdate.status: validated to be one of DocumentStatus.ALL
StatusRequests == DocumentStatus_ALL

InitStatus ==
    /\ StoreInit
    /\ last = NoCall
    /\ observed = {"updateStatus"}
    /\ capacity = MaxDocs
    /\ calls = NoCalls
    /\ AllocIdle

NextStatus ==
    \/ \E data \in StatusCreateRequests : CreateDocument("t1", data)
    \/ \E c \in CompanyIds, id \in DocIds, st \in StatusRequests : UpdateStatus(c, id, st)

SpecStatus == InitStatus /\ [][NextStatus]_vars

----------------------------------------------------------------------------
(* Specification SpecTenant: the callers of both companies address every   *)
(* document id with every document operation; all outcomes are observed.   *)

TenantCreateRequests ==
    {[document_type |-> ty, customer_id |-> c, items |-> <<ItemA>>] :
        ty \in {INVOICE, QUOTE}, c \in DOMAIN CustomerCompany}

TenantStatusRequests == {SENT, ACCEPTED}

TenantUpdateRequests == {[items |-> <<ItemB>>]}

TenantPaymentRequests == {[amount |-> 1000]}

TenantPartialRequests == {[amount |-> 500]}

InitTenant ==
    /\ StoreInit
    /\ last = NoCall
    /\ observed = Operations \ {"create"}
    /\ capacity = MaxDocs
    /\ calls = NoCalls
    /\ AllocIdle

NextTenant ==
    \/ \E c \in CompanyIds, data \in TenantCreateRequests : CreateDocument(c, data)
    \/ \E c \in CompanyIds, id \in RequestIds : GetDocument(c, id)
    \/ \E c \in CompanyIds, id \in RequestIds, data \in TenantUpdateRequests :
            UpdateDocument(c, id, data)
    \/ \E c \in CompanyIds, id \in RequestIds, st \in TenantStatusRequests : UpdateStatus(c, id, st)
    \/ \E c \in CompanyIds, id \in RequestIds, data \in ConvertRequests :
            ConvertQuoteToInvoice(c, id, data)
    \/ \E c \in CompanyIds, id \in RequestIds, data \in TenantPaymentRequests :
            AddPayment(c, id, data)
    \/ \E c \in CompanyIds, id \in RequestIds, data \in ReminderRequests : AddReminder(c, id, data)
    \/ \E c \in CompanyIds, id \in RequestIds : CancelDocument(c, id)
    \/ \E c \in CompanyIds, id \in RequestIds : CreateCreditNote(c, id)
    \/ \E c \in CompanyIds, id \in RequestIds : GetRelatedDocuments(c, id)
    \/ \E c \in CompanyIds, id \in RequestIds, data \in TenantPartialRequests :
            CreatePartialInvoice(c, id, data)

SpecTenant == InitTenant /\ [][NextTenant]_vars

----------------------------------------------------------------------------
(* Specification SpecEdit: documents are created, sent or cancelled, and   *)
(* edited through update_document, whose outcome is observed.              *)

EditCreateRequests ==
    {[document_type |-> ty, customer_id |-> "c1", items |-> <<ItemA>>] :
        ty \in {INVOICE, QUOTE}}

EditStatusRequests == {SENT, CANCELLED}

\* DocumentUpdate bodies: no field, new items, new notes, new customer,
\* new payment terms, a new due date
EditRequests ==
    { [x \in {} |-> 0],
      [items |-> <<ItemB>>],
      [notes |-> <<"edited">>],
      [customer_id |-> "c2"],
      [payment_terms_days |-> 30, due_date |-> [from |-> "today", days |-> 30]] }

InitEdit ==
    /\ StoreInit
    /\ last = NoCall
    /\ observed = {"update"}
    /\ capacity = MaxDocs
    /\ calls = NoCalls
    /\ AllocIdle

NextEdit ==
    \/ \E data \in EditCreateRequests : CreateDocument("t1", data)
    \/ \E c \in CompanyIds, id \in DocIds, st \in EditStatusRequests : UpdateStatus(c, id, st)
    \/ \E c \in CompanyIds, id \in DocIds, data \in EditRequests : UpdateDocument(c, id, data)

SpecEdit == InitEdit /\ [][NextEdit]_vars

----------------------------------------------------------------------------
(* Specification SpecPay: invoices, quotes and partial invoices of company *)
(* t1 are created, moved through their statuses and paid; the outcome of   *)
(* add_payment is observed.                                                *)

\* DocumentCreate bodies: an invoice, a quote, and a partial invoice whose
\* related_document_id is no ObjectId
PayCreateRequests ==
    {[document_type |-> ty, customer_id |-> "c1", items |-> <<ItemA>>] :
        ty \in {INVOICE, QUOTE}}
    \cup {[document_type |-> PARTIAL_INVOICE, customer_id |-> "c1", items |-> <<ItemA>>,
           related_document_id |-> MalformedId]}

PayStatusRequests == {SENT, OVERDUE, CANCELLED}

\* PaymentCreate bodies: half of ItemA's gross amount, all of it, all of it
\* plus the tolerance, and one mill more than that
PayRequests == {[amount |-> a] : a \in {500, 1000, 1000 + Tolerance, 1001 + Tolerance}}

PayPartialRequests == {[amount |-> 1000]}

InitPay ==
    /\ StoreInit
    /\ last = NoCall
    /\ observed = {"addPayment"}
    /\ capacity = MaxDocs
    /\ calls = NoCalls
    /\ AllocIdle

NextPay ==
    \/ \E data \in PayCreateRequests : CreateDocument("t1", data)
    \/ \E id \in DocIds, st \in PayStatusRequests : UpdateStatus("t1", id, st)
    \/ \E id \in DocIds, data \in PayPartialRequests : CreatePartialInvoice("t1", id, data)
    \/ \E c \in CompanyIds, id \in DocIds, data \in PayRequests : AddPayment(c, id, data)

SpecPay == InitPay /\ [][NextPay]_vars

----------------------------------------------------------------------------
(* Specification SpecCascade: both companies create invoices, quotes and   *)
(* partial invoices (through create_partial_invoice, or through            *)
(* create_document with a related_document_id of the caller's choice),     *)
(* send them and pay them; the outcome of add_payment is observed.         *)

\* DocumentCreate bodies: related_document_id is an unvalidated string
CascadeCreateRequests ==
    {[document_type |-> ty, customer_id |-> c, items |-> <<ItemA>>] :
        ty \in {INVOICE, QUOTE}, c \in DOMAIN CustomerCompany}
    \cup {[document_type |-> PARTIAL_INVOICE, customer_id |-> "c1", items |-> <<ItemA>>,
           related_document_id |-> r] : r \in RequestIds}

\* CreatePartialRequest bodies: 0.004 EUR, which rounds to a partial invoice
\* of 0.00 EUR, and 1.00 EUR
CascadePartialRequests == {[amount |-> a] : a \in {4, 1000}}

CascadePaymentRequests == {[amount |-> a] : a \in {4, 1000}}

\* room for one more direct payment on the document (bound of the model)
PaymentRoom(document_id) ==
    document_id \in 1..Len(docs) => Len(docs[document_id].payments) < MaxPayments

InitCascade ==
    /\ StoreInit
    /\ last = NoCall
    /\ observed = {"addPayment"}
    /\ capacity = MaxDocs
    /\ calls = NoCalls
    /\ AllocIdle

NextCascade ==
    \/ \E c \in CompanyIds, data \in CascadeCreateRequests : CreateDocument(c, data)
    \/ \E c \in CompanyIds, id \in DocIds : UpdateStatus(c, id, SENT)
    \/ \E c \in CompanyIds, id \in DocIds, data \in CascadePartialRequests :
            CreatePartialInvoice(c, id, data)
    \/ \E c \in CompanyIds, id \in DocIds, data \in CascadePaymentRequests :
            PaymentRoom(id) /\ AddPayment(c, id, data)

SpecCascade == InitCascade /\ [][NextCascade]_vars

----------------------------------------------------------------------------
(* Claims *)

RECURSIVE DigitsValue(_)
DigitsValue(ds) ==
    IF ds = <<>> THEN 0 ELSE 10 * DigitsValue(SubSeq(ds, 1, Len(ds) - 1)) + ds[Len(ds)]

\* the integers returned so far for a (company, type)
ReturnedFor(target) ==
    {DigitsValue(issued[i].number.digits) : i \in {j \in 1..Len(issued) : issued[j].target = target}}

CallersOf(target) == {w \in Workers : pc[w] # "idle" /\ seqOf[w].target = target}

\* C1: concurrent sequence allocations for one (company, type), starting from
\* a counter that has issued k numbers, return distinct integers without
\* gaps: at every moment the values returned are distinct and lie in
\* k+1 .. k+N for the N callers, and once all N callers have returned the
\* values are exactly k+1 .. k+N (so the first value ever issued is 1).
C1_SequenceAllocation ==
    \A target \in AllocTargets :
        LET k == base[KeyOf(target)]
            callers == CallersOf(target)
            finished == {w \in callers : pc[w] = "done"}
            N == Cardinality(callers)
        IN  /\ Cardinality(ReturnedFor(target)) =
                    Cardinality({j \in 1..Len(issued) : issued[j].target = target})
            /\ ReturnedFor(target) \subseteq (k + 1)..(k + N)
            /\ finished = callers => ReturnedFor(target) = (k + 1)..(k + N)
            /\ \A i, j \in 1..Len(issued) :
                    (i # j /\ issued[i].target[1] = issued[j].target[1])
                        => issued[i].number # issued[j].number

\* all callers allocated from one counter that had issued numbers before,
\* and all have returned
C1_Witness ==
    \E target \in AllocTargets :
        /\ base[KeyOf(target)] = MaxIssued
        /\ \A w \in Workers : pc[w] = "done" /\ seqOf[w].target = target

\* the caller's company owns an existing document with this id
Owns(company_id, document_id) ==
    /\ document_id \in 1..Len(docs)
    /\ docs[document_id].company_id = company_id

NumbersUnique ==
    \A i, j \in 1..Len(docs) :
        (i # j /\ docs[i].company_id = docs[j].company_id)
            => docs[i].document_number # docs[j].document_number

NumbersKept ==
    \A i \in 1..Len(docs) :
        /\ i \in 1..Len(docs')
        /\ docs'[i].document_number = docs[i].document_number

\* C2: in every reachable state no two documents of one company carry the
\* same document number, whatever their types, and no operation (create,
\* update, updateStatus, convert, addPayment, addReminder, cancel,
\* createCreditNote, createPartialInvoice) removes a document or changes the
\* document number of a document that is already stored.
C2_NumberUniqueImmutable == []NumbersUnique /\ [][NumbersKept]_vars

\* two documents of one company of different types that drew the same
\* sequence value from their counters, one of them past DRAFT
C2_Witness ==
    \E i, j \in 1..Len(docs) :
        /\ i # j
        /\ docs[i].company_id = docs[j].company_id
        /\ docs[i].document_type # docs[j].document_type
        /\ docs[i].document_number.digits = docs[j].document_number.digits
        /\ docs[i].status # DRAFT

\* the transition table as the claim states it: <<type, current, target>>
ClaimedEdges ==
    ({INVOICE, PARTIAL_INVOICE} \X {DRAFT} \X {SENT, CANCELLED})
    \cup ({INVOICE, PARTIAL_INVOICE} \X {SENT} \X {PAID, PARTIALLY_PAID, OVERDUE, CANCELLED})
    \cup ({INVOICE, PARTIAL_INVOICE} \X {PARTIALLY_PAID} \X {PAID, OVERDUE, CANCELLED})
    \cup ({INVOICE, PARTIAL_INVOICE} \X {OVERDUE} \X {PAID, PARTIALLY_PAID, CANCELLED})
    \cup ({QUOTE} \X {DRAFT} \X {SENT, CANCELLED})
    \cup ({QUOTE} \X {SENT} \X {ACCEPTED, REJECTED, CANCELLED})
    \cup ({QUOTE} \X {ACCEPTED} \X {CONVERTED})
    \cup ({DELIVERY_NOTE, ORDER_CONFIRMATION, CREDIT_NOTE} \X {DRAFT} \X {SENT, CANCELLED})
    \cup ({CANCELLATION} \X {DRAFT} \X {SENT})

C4_CancelledTerminal ==
    [][\A id \in 1..Len(docs) :
          docs[id].status = CANCELLED => docs'[id].status = CANCELLED]_vars

\* C5: PAID is terminal for invoices and partial invoices: no operation
\* (updateStatus, cancel, addPayment on the document or on one of its partial
\* invoices, addReminder) changes the status of an INVOICE or
\* PARTIAL_INVOICE whose status is PAID.
C5_PaidTerminal ==
    [][\A id \in 1..Len(docs) :
          (docs[id].document_type \in {INVOICE, PARTIAL_INVOICE} /\ docs[id].status = PAID)
              => docs'[id].status = PAID]_vars

\* the call raised NotFound and wrote nothing
Refused(op) ==
    /\ last' = [op |-> op, result |-> "NotFound"]
    /\ docs' = docs
    /\ counters' = counters

\* C6: every document operation called for a document id that does not
\* exist, or that belongs to another company than the caller's, fails with
\* NotFound and leaves all documents and all counters unchanged.
C6_TenantIsolation ==
    [][\A c \in CompanyIds, id \in RequestIds :
          ~Owns(c, id) =>
              /\ GetDocument(c, id) => Refused("get")
              /\ \A data \in TenantUpdateRequests :
                    UpdateDocument(c, id, data) => Refused("update")
              /\ \A st \in TenantStatusRequests :
                    UpdateStatus(c, id, st) => Refused("updateStatus")
              /\ \A data \in ConvertRequests :
                    ConvertQuoteToInvoice(c, id, data) => Refused("convert")
              /\ \A data \in TenantPaymentRequests :
                    AddPayment(c, id, data) => Refused("addPayment")
              /\ \A data \in ReminderRequests :
                    AddReminder(c, id, data) => Refused("addReminder")
              /\ CancelDocument(c, id) => Refused("cancel")
              /\ CreateCreditNote(c, id) => Refused("createCreditNote")
              /\ GetRelatedDocuments(c, id) => Refused("getRelated")
              /\ \A data \in TenantPartialRequests :
                    CreatePartialInvoice(c, id, data) => Refused("createPartialInvoice")]_vars

\* C7: update_document on a document of the caller's company whose status
\* is not DRAFT fails with InvalidState, and on a DRAFT document with a
\* patch that has no editable field it fails with NoOp; in both cases no
\* stored document changes.
C7_UpdateRefusals ==
    [][\A c \in CompanyIds, id \in DocIds, data \in EditRequests :
          (Owns(c, id) /\ UpdateDocument(c, id, data)) =>
              /\ docs[id].status # DRAFT =>
                    (last'.result = "InvalidState" /\ docs' = docs)
              /\ (docs[id].status = DRAFT
                    /\ DOMAIN data \cap (EditableFields \cup {"items"}) = {}) =>
                    (last'.result = "NoOp" /\ docs' = docs)]_vars

\* a document that was edited as a draft (its total is ItemB's) has been
\* sent, no document is a draft, and the last update_document call was
\* refused with InvalidState
C7_Witness ==
    /\ last = [op |-> "update", result |-> "InvalidState"]
    /\ Len(docs) > 0
    /\ \A id \in 1..Len(docs) : docs[id].status # DRAFT
    /\ \E id \in 1..Len(docs) : docs[id].status = SENT /\ docs[id].totals.gross = 500

C9_RemainingIsGrossMinusPaid ==
    \A id \in 1..Len(docs) :
        docs[id].totals.remaining_amount = docs[id].totals.gross - docs[id].totals.paid_amount

\* a parent invoice carries a payment appended by the cascade, and the
\* partial invoice that was paid carries its own
C9_Witness ==
    \E id, pid \in 1..Len(docs) :
        /\ docs[pid].document_type = PARTIAL_INVOICE
        /\ docs[pid].related_document_id = id
        /\ docs[pid].totals.paid_amount > 0
        /\ docs[id].payments # <<>>
        /\ "reference" \in DOMAIN docs[id].payments[Len(docs[id].payments)]
        /\ docs[id].totals.paid_amount > 0

\* C10: after every successful add_payment the document paid has status
\* PAID if |paid_amount - |gross|| < 0.01 (10 mills) and PARTIALLY_PAID
\* otherwise, with paid_amount > 0, where paid_amount is the value after the
\* payment; and a payment of exactly the remaining amount of a SENT, OVERDUE
\* or PARTIALLY_PAID invoice leaves it PAID with remaining_amount 0.
C10_StatusAfterPayment ==
    [][\A c \in CompanyIds, id \in DocIds, data \in PayRequests :
          (Owns(c, id) /\ AddPayment(c, id, data) /\ last'.result = "ok") =>
              LET paid == docs'[id].totals.paid_amount
                  gross == Abs(docs'[id].totals.gross)
              IN  /\ paid > 0
                  /\ docs'[id].status = IF Abs(paid - gross) < 10 THEN PAID ELSE PARTIALLY_PAID
                  /\ (/\ data.amount = docs[id].totals.remaining_amount
                      /\ docs[id].status \in {SENT, OVERDUE, PARTIALLY_PAID}) =>
                        (/\ docs'[id].status = PAID
                         /\ docs'[id].totals.remaining_amount = 0)]_vars

\* an invoice was paid in two instalments, the second of exactly the
\* remaining amount, and is PAID with nothing remaining
C10_Witness ==
    /\ last = [op |-> "addPayment", result |-> "ok"]
    /\ \E id \in 1..Len(docs) :
          /\ docs[id].document_type = INVOICE
          /\ Len(docs[id].payments) = 2
          /\ docs[id].status = PAID
          /\ docs[id].totals.remaining_amount = 0

\* the related_document_id names an INVOICE of the caller's company
NamesParent(c, p) ==
    /\ p \in 1..Len(docs)
    /\ docs[p].company_id = c
    /\ docs[p].document_type = INVOICE

\* one successful add_payment step seen from its parent: `otherwise` is the
\* status the parent must have when the payments do not add up to its gross
CascadeStep(c, id, otherwise(_, _)) ==
    LET doc == docs[id]
        after == docs'[id]
        p == doc.related_document_id
    IN  IF doc.document_type = PARTIAL_INVOICE /\ after.status = PAID /\ NamesParent(c, p)
        THEN LET parent == docs[p]
                 amount == Abs(after.totals.gross)
                 paid == parent.totals.paid_amount + amount
             IN  /\ docs'[p].payments = Append(parent.payments, docs'[p].payments[Len(parent.payments) + 1])
                 /\ docs'[p].payments[Len(parent.payments) + 1].amount = amount
                 /\ docs'[p].payments[Len(parent.payments) + 1].reference
                        = <<"Abschlagsrechnung", doc.document_number>>
                 /\ docs'[p].totals.paid_amount = paid
                 /\ docs'[p].totals.remaining_amount = parent.totals.remaining_amount - amount
                 /\ docs'[p].status = IF Abs(paid - Abs(parent.totals.gross)) < 10 THEN PAID
                                      ELSE otherwise(paid, parent.status)
                 /\ \A j \in 1..Len(docs) : j \notin {id, p} => docs'[j] = docs[j]
        ELSE \A j \in 1..Len(docs) : j # id => docs'[j] = docs[j]

\* C11 (as amended): when a successful add_payment brings a PARTIAL_INVOICE
\* to PAID and its related_document_id names an INVOICE of the same company,
\* exactly one payment is appended to that invoice, of the partial invoice's
\* |gross| and with a reference naming the partial invoice's number; the
\* parent's paid_amount and remaining_amount move by that amount; the
\* parent's status becomes PAID if |paid - |gross|| < 0.01, PARTIALLY_PAID if
\* not and paid > 0, and stays what it was if paid is 0; a successful
\* add_payment that does not bring a PARTIAL_INVOICE to PAID changes no
\* other document.
C11_CascadeAmended ==
    [][\A c \in CompanyIds, id \in DocIds, data \in CascadePaymentRequests :
          (Owns(c, id) /\ AddPayment(c, id, data) /\ last'.result = "ok") =>
              CascadeStep(c, id, LAMBDA paid, status :
                                    IF paid > 0 THEN PARTIALLY_PAID ELSE status)]_vars

\* C11 (as stated): the same, with the parent's status PAID if
\* |paid - |gross|| < 0.01 and PARTIALLY_PAID in every other case.
C11_CascadeAsStated ==
    [][\A c \in CompanyIds, id \in DocIds, data \in CascadePaymentRequests :
          (Owns(c, id) /\ AddPayment(c, id, data) /\ last'.result = "ok") =>
              CascadeStep(c, id, LAMBDA paid, status : PARTIALLY_PAID)]_vars

\* a partial invoice of the full amount was paid, and its parent invoice
\* holds the cascaded payment and is PAID
C11_Witness ==
    /\ last = [op |-> "addPayment", result |-> "ok"]
    /\ \E id, p \in 1..Len(docs) :
          /\ docs[id].document_type = PARTIAL_INVOICE
          /\ docs[id].status = PAID
          /\ docs[id].related_document_id = p
          /\ docs[p].document_type = INVOICE
          /\ docs[p].status = PAID
          /\ Len(docs[p].payments) = 1
          /\ docs[p].payments[1].amount = docs[id].totals.gross
          /\ docs[p].totals.remaining_amount = 0

\* C12: when add_payment brings a PARTIAL_INVOICE to PAID and its
\* related_document_id names no existing document, a document of another
\* company, or a document that is no INVOICE, the call succeeds: the payment
\* is recorded on the partial invoice, its status is PAID, no error reaches
\* the caller, and no other document changes.
C12_CascadeFailureSwallowed ==
    [][\A c \in CompanyIds, id \in DocIds, data \in CascadePaymentRequests :
          (/\ Owns(c, id)
           /\ AddPayment(c, id, data)
           /\ docs[id].document_type = PARTIAL_INVOICE
           /\ docs[id].status \in {SENT, OVERDUE, PARTIALLY_PAID}
           /\ data.amount <= docs[id].totals.remaining_amount + 10
           /\ Abs(docs[id].totals.paid_amount + data.amount - Abs(docs[id].totals.gross)) < 10
           /\ docs[id].related_document_id # 0
           /\ ~NamesParent(c, docs[id].related_document_id)) =>
              /\ last'.result = "ok"
              /\ docs'[id].status = PAID
              /\ docs'[id].payments = Append(docs[id].payments, docs'[id].payments[Len(docs'[id].payments)])
              /\ docs'[id].payments[Len(docs'[id].payments)].amount = data.amount
              /\ \A j \in 1..Len(docs) : j # id => docs'[j] = docs[j]]_vars

\* ---------------------------------------------------------------------
\* SpecRemind: reminders on invoices, partial invoices and quotes in every
\* status that sending, cancelling and paying them reaches
\* ---------------------------------------------------------------------
RemindCreateRequests ==
    {[document_type |-> ty, customer_id |-> "c1", items |-> <<ItemA>>] :
        ty \in {INVOICE, PARTIAL_INVOICE, QUOTE}}

RemindStatusRequests == {SENT, CANCELLED}

RemindPaymentRequests == {[amount |-> 500]}

InitRemind ==
    /\ StoreInit
    /\ last = NoCall
    /\ observed = {"addReminder"}
    /\ capacity = MaxDocs
    /\ calls = NoCalls
    /\ AllocIdle

NextRemind ==
    \/ \E data \in RemindCreateRequests : CreateDocument("t1", data)
    \/ \E id \in DocIds, st \in RemindStatusRequests : UpdateStatus("t1", id, st)
    \/ \E id \in DocIds, data \in RemindPaymentRequests : AddPayment("t1", id, data)
    \/ \E c \in CompanyIds, id \in DocIds, data \in ReminderRequests : AddReminder(c, id, data)

SpecRemind == InitRemind /\ [][NextRemind]_vars

\* the stored reminder levels of every document are 1, 2, ..., n in order,
\* with n at most MAX_REMINDER_LEVEL
LevelsInOrder ==
    \A id \in 1..Len(docs) :
        /\ Len(docs[id].reminders) <= MAX_REMINDER_LEVEL
        /\ \A k \in 1..Len(docs[id].reminders) : docs[id].reminders[k].level = k

\* add_reminder's conditions on the type and the status of the document
Remindable(doc) ==
    /\ doc.document_type \in {INVOICE, PARTIAL_INVOICE}
    /\ doc.status \in {SENT, OVERDUE, PARTIALLY_PAID}

\* C13: each successful add_reminder appends one reminder whose level is the
\* number of reminders stored before the call plus 1, so the stored levels
\* of a document are always 1, 2, ..., n in order; a call on a document that
\* add_reminder takes by type and status and that would produce a level above
\* MAX_REMINDER_LEVEL is rejected with LimitExceeded, and the rejected call
\* leaves reminders and status (the whole store) unchanged.
C13_ReminderLevels ==
    /\ []LevelsInOrder
    /\ [][\A c \in CompanyIds, id \in DocIds, data \in ReminderRequests :
            (Owns(c, id) /\ AddReminder(c, id, data)) =>
                LET n == Len(docs[id].reminders)
                IN  /\ (last'.result = "ok") =>
                          /\ Len(docs'[id].reminders) = n + 1
                          /\ SubSeq(docs'[id].reminders, 1, n) = docs[id].reminders
                          /\ docs'[id].reminders[n + 1].level = n + 1
                    /\ (Remindable(docs[id]) /\ n + 1 > MAX_REMINDER_LEVEL) =>
                          last'.result = "LimitExceeded"
                    /\ (last'.result = "LimitExceeded") =>
                          /\ n + 1 > MAX_REMINDER_LEVEL
                          /\ docs' = docs]_vars

\* a document holds MAX_REMINDER_LEVEL reminders and one more was refused
C13_Witness ==
    /\ last = [op |-> "addReminder", result |-> "LimitExceeded"]
    /\ \E id \in 1..Len(docs) :
          /\ Len(docs[id].reminders) = MAX_REMINDER_LEVEL
          /\ docs[id].reminders[MAX_REMINDER_LEVEL].level = MAX_REMINDER_LEVEL

\* C14: add_reminder is accepted only for an INVOICE or PARTIAL_INVOICE in
\* status SENT, OVERDUE or PARTIALLY_PAID; for any other document of the
\* caller it answers InvalidState and the store is unchanged; after a
\* successful call the status is OVERDUE if it was SENT or OVERDUE before,
\* and it is still PARTIALLY_PAID if it was PARTIALLY_PAID.
C14_ReminderEligibility ==
    [][\A c \in CompanyIds, id \in DocIds, data \in ReminderRequests :
          (Owns(c, id) /\ AddReminder(c, id, data)) =>
              IF Remindable(docs[id])
              THEN /\ last'.result \in {"ok", "LimitExceeded"}
                   /\ (last'.result = "ok") =>
                         docs'[id].status = IF docs[id].status \in {SENT, OVERDUE}
                                            THEN OVERDUE ELSE PARTIALLY_PAID
              ELSE /\ last'.result = "InvalidState"
                   /\ docs' = docs]_vars

\* one document was reminded while SENT and is OVERDUE, another was
\* reminded while PARTIALLY_PAID and still is
C14_Witness ==
    /\ last = [op |-> "addReminder", result |-> "ok"]
    /\ \E i, j \in 1..Len(docs) :
          /\ docs[i].status = OVERDUE
          /\ Len(docs[i].reminders) = 1
          /\ docs[i].payments = <<>>
          /\ docs[j].status = PARTIALLY_PAID
          /\ Len(docs[j].reminders) = 1
          /\ Len(docs[j].payments) = 1

\* ---------------------------------------------------------------------
\* SpecCancel: cancel on invoices, partial invoices, quotes and
\* cancellation documents in the statuses that updateStatus reaches
\* ---------------------------------------------------------------------
CancelCreateRequests ==
    {[document_type |-> ty, customer_id |-> "c1", items |-> <<ItemA>>] :
        ty \in {INVOICE, PARTIAL_INVOICE, QUOTE}}

CancelStatusRequests == {SENT, PAID, CANCELLED}

InitCancel ==
    /\ StoreInit
    /\ last = NoCall
    /\ observed = {"cancel"}
    /\ capacity = MaxDocs + 1
    /\ calls = NoCalls
    /\ AllocIdle

NextCancel ==
    \/ \E data \in CancelCreateRequests : CreateDocument("t1", data)
    \/ \E id \in DocIds, st \in CancelStatusRequests : UpdateStatus("t1", id, st)
    \/ \E c \in CompanyIds, id \in DocIds : CancelDocument(c, id)

SpecCancel == InitCancel /\ [][NextCancel]_vars

\* C15: cancel on a document of the caller succeeds exactly when the
\* document is an INVOICE or PARTIAL_INVOICE whose status is not CANCELLED;
\* on success the original is CANCELLED (nothing else of it changes) and
\* exactly one document is new: a CANCELLATION in DRAFT of the same company
\* and customer, whose related_document_id is the original's id and whose
\* number is the next value of the company's CANCELLATION counter, carried
\* by no document of the company before; on rejection the answer is
\* InvalidState and no document and no counter changes.
C15_Cancel ==
    [][\A c \in CompanyIds, id \in DocIds :
          (Owns(c, id) /\ CancelDocument(c, id)) =>
              LET doc == docs[id]
                  key == <<c, CounterTypeOf(CANCELLATION)>>
              IN  IF doc.document_type \in {INVOICE, PARTIAL_INVOICE} /\ doc.status # CANCELLED
                  THEN /\ last'.result = "ok"
                       /\ Len(docs') = Len(docs) + 1
                       /\ docs'[id] = [doc EXCEPT !.status = CANCELLED]
                       /\ \A j \in 1..Len(docs) : j # id => docs'[j] = docs[j]
                       /\ LET created == docs'[Len(docs')]
                          IN  /\ created.document_type = CANCELLATION
                              /\ created.status = DRAFT
                              /\ created.company_id = c
                              /\ created.customer_id = doc.customer_id
                              /\ created.related_document_id = id
                              /\ created.document_number.prefix = "ST"
                              /\ DigitsValue(created.document_number.digits) = counters[key] + 1
                              /\ \A j \in 1..Len(docs) :
                                    docs[j].company_id = c =>
                                        docs[j].document_number # created.document_number
                       /\ counters' = [counters EXCEPT ![key] = @ + 1]
                  ELSE /\ last'.result = "InvalidState"
                       /\ docs' = docs
                       /\ counters' = counters]_vars

\* an invoice was cancelled: it is CANCELLED and a CANCELLATION in DRAFT
\* refers to it; a second cancel of it was refused
C15_Witness ==
    /\ last = [op |-> "cancel", result |-> "InvalidState"]
    /\ \E i, j \in 1..Len(docs) :
          /\ docs[i].document_type = INVOICE
          /\ docs[i].status = CANCELLED
          /\ docs[j].document_type = CANCELLATION
          /\ docs[j].status = DRAFT
          /\ docs[j].related_document_id = i
          /\ docs[j].customer_id = docs[i].customer_id

\* ---------------------------------------------------------------------
\* SpecNegative: credit notes and cancellations made by cancel, by
\* createCreditNote, by create with that type, and edited while in DRAFT,
\* for a company that charges VAT and one that does not
\* ---------------------------------------------------------------------
ItemV == [quantity |-> 1, unit_price |-> 1000, vat_rate |-> 19, discount_percent |-> 0]

NegativeCreateRequests ==
    {[document_type |-> ty, customer_id |-> c, items |-> <<ItemV>>] :
        ty \in {INVOICE, CREDIT_NOTE, CANCELLATION}, c \in DOMAIN CustomerCompany}

NegativeUpdateRequests == {[items |-> <<ItemB>>], [items |-> <<ItemB, ItemV>>]}

InitNegative ==
    /\ StoreInit
    /\ last = NoCall
    /\ observed = {}
    /\ capacity = MaxDocs + 1
    /\ calls = NoCalls
    /\ AllocIdle

NextNegative ==
    \/ \E c \in CompanyIds, data \in NegativeCreateRequests : CreateDocument(c, data)
    \/ \E c \in CompanyIds, id \in DocIds, data \in NegativeUpdateRequests :
            UpdateDocument(c, id, data)
    \/ \E c \in CompanyIds, id \in DocIds : CancelDocument(c, id)
    \/ \E c \in CompanyIds, id \in DocIds : CreateCreditNote(c, id)

SpecNegative == InitNegative /\ [][NextNegative]_vars

\* C16: in every reachable state every CREDIT_NOTE and every CANCELLATION
\* has totals.net <= 0, totals.vat <= 0 and totals.gross <= 0, whether it
\* was made by cancel, by createCreditNote, by create with that type, or had
\* its items replaced by update while in DRAFT.
C16_NegativeTotals ==
    \A id \in 1..Len(docs) :
        docs[id].document_type \in {CREDIT_NOTE, CANCELLATION} =>
            /\ docs[id].totals.net <= 0
            /\ docs[id].totals.vat <= 0
            /\ docs[id].totals.gross <= 0

\* a credit note created directly had its items replaced (net 1500 instead
\* of 1000) and a cancellation was made from an invoice; both carry
\* strictly negative net, vat and gross
C16_Witness ==
    \E i, j, k \in 1..Len(docs) :
        /\ docs[i].document_type = INVOICE
        /\ docs[j].document_type = CANCELLATION
        /\ docs[j].related_document_id = i
        /\ docs[j].totals.net = -1000
        /\ docs[j].totals.vat = -190
        /\ docs[j].totals.gross = -1190
        /\ docs[k].document_type = CREDIT_NOTE
        /\ docs[k].related_document_id = 0
        /\ docs[k].totals.net = -1500
        /\ docs[k].totals.vat < 0
        /\ docs[k].totals.gross < 0

\* ---------------------------------------------------------------------
\* SpecPartial: partial invoices requested for invoices and quotes, with
\* amounts below, at and above what the cap leaves
\* ---------------------------------------------------------------------
PartialCreateRequests ==
    {[document_type |-> ty, customer_id |-> "c1", items |-> <<ItemA>>] :
        ty \in {INVOICE, QUOTE}}
    \cup {[document_type |-> PARTIAL_INVOICE, customer_id |-> c, items |-> <<ItemB>>,
           related_document_id |-> 1] : c \in DOMAIN CustomerCompany}

PartialStatusRequests == {SENT, CANCELLED}

\* CreatePartialRequest bodies: half of ItemA's gross amount, the other half
\* plus the tolerance, and one mill more than that
PartialCapRequests == {[amount |-> a] : a \in {500, 500 + Tolerance, 501 + Tolerance}}

InitPartial ==
    /\ StoreInit
    /\ last = NoCall
    /\ observed = {"createPartialInvoice"}
    /\ capacity = MaxDocs + 1
    /\ calls = NoCalls
    /\ AllocIdle

NextPartial ==
    \/ \E c \in CompanyIds, data \in PartialCreateRequests : CreateDocument(c, data)
    \/ \E id \in DocIds, st \in PartialStatusRequests : UpdateStatus("t1", id, st)
    \/ \E c \in CompanyIds, id \in DocIds, data \in PartialCapRequests :
            CreatePartialInvoice(c, id, data)

SpecPartial == InitPartial /\ [][NextPartial]_vars

\* the PARTIAL_INVOICE documents of the company that refer to the document
PartialChildren(company_id, document_id) ==
    {i \in 1..Len(docs) : /\ docs[i].company_id = company_id
                          /\ docs[i].document_type = PARTIAL_INVOICE
                          /\ docs[i].related_document_id = document_id}

C18_PartialAggregateCap ==
    \A id \in 1..Len(docs) :
        docs[id].document_type = INVOICE =>
            SumAbsGross(docs, PartialChildren(docs[id].company_id, id))
                <= Abs(docs[id].totals.gross) + Tolerance

\* ---------------------------------------------------------------------
\* SpecAccept: status changes of quotes and invoices, some of them edited
\* in DRAFT to an issue date that is no date and an empty due date
\* ---------------------------------------------------------------------
AcceptCreateRequests ==
    {[document_type |-> ty, customer_id |-> "c1", items |-> <<ItemA>>] :
        ty \in {QUOTE, INVOICE}}

\* DocumentUpdate bodies: issue_date 'garbage' with due_date '', and new notes
AcceptUpdateRequests ==
    { [issue_date |-> BadDate, due_date |-> NoDate],
      [notes |-> <<"edited">>] }

AcceptStatusRequests == {SENT, ACCEPTED, REJECTED, PAID}

InitAccept ==
    /\ StoreInit
    /\ last = NoCall
    /\ observed = {"updateStatus"}
    /\ capacity = MaxDocs + 1
    /\ calls = NoCalls
    /\ AllocIdle

NextAccept ==
    \/ \E data \in AcceptCreateRequests : CreateDocument("t1", data)
    \/ \E id \in DocIds, data \in AcceptUpdateRequests : UpdateDocument("t1", id, data)
    \/ \E c \in CompanyIds, id \in DocIds, st \in AcceptStatusRequests : UpdateStatus(c, id, st)

SpecAccept == InitAccept /\ [][NextAccept]_vars

\* C19: when update_status moves a QUOTE to ACCEPTED, exactly one document
\* is new: an ORDER_CONFIRMATION in DRAFT of the same company and customer,
\* with the quote's items, whose related_document_id is the quote's id and
\* whose number is the next value of the company's ORDER_CONFIRMATION
\* counter; no other status transition of any document creates a document.
C19_OrderConfirmation ==
    [][\A c \in CompanyIds, id \in DocIds, st \in AcceptStatusRequests :
          (Owns(c, id) /\ UpdateStatus(c, id, st)) =>
              LET doc == docs[id]
                  key == <<c, CounterTypeOf(ORDER_CONFIRMATION)>>
              IN  IF /\ doc.document_type = QUOTE
                     /\ doc.status # ACCEPTED
                     /\ docs'[id].status = ACCEPTED
                  THEN /\ Len(docs') = Len(docs) + 1
                       /\ LET created == docs'[Len(docs')]
                          IN  /\ created.document_type = ORDER_CONFIRMATION
                              /\ created.status = DRAFT
                              /\ created.company_id = c
                              /\ created.customer_id = doc.customer_id
                              /\ created.items = doc.items
                              /\ created.related_document_id = id
                              /\ DigitsValue(created.document_number.digits) = counters[key] + 1
                       /\ counters' = [counters EXCEPT ![key] = @ + 1]
                  ELSE /\ Len(docs') = Len(docs)
                       /\ counters' = counters]_vars

\* ---------------------------------------------------------------------
\* SpecConvert: convert requested for quotes and invoices in the statuses
\* on the way to ACCEPTED, with and without an issue date that is no date
\* ---------------------------------------------------------------------
ConvertCreateRequests ==
    {[document_type |-> ty, customer_id |-> c, items |-> <<ItemA>>] :
        ty \in {QUOTE, INVOICE}, c \in DOMAIN CustomerCompany}

ConvertStatusRequests == {SENT, ACCEPTED}

\* ConvertQuoteRequest bodies: no field, and issue_date 'garbage'
ConvertDateRequests ==
    { [x \in {} |-> 0],
      [issue_date |-> BadDate] }

\* the counter of the company for the type has numbers left (bound of the model)
CounterRoom(company_id, document_type) ==
    counters[<<company_id, CounterTypeOf(document_type)>>] < MaxSequence

InitConvert ==
    /\ StoreInit
    /\ last = NoCall
    /\ observed = {"convert"}
    /\ capacity = MaxDocs + 1
    /\ calls = NoCalls
    /\ AllocIdle

NextConvert ==
    \/ \E c \in CompanyIds, data \in ConvertCreateRequests : CreateDocument(c, data)
    \/ \E c \in CompanyIds, id \in DocIds, st \in ConvertStatusRequests :
            UpdateStatus(c, id, st)
    \/ \E c \in CompanyIds, id \in DocIds, data \in ConvertDateRequests :
            CounterRoom(c, INVOICE) /\ ConvertQuoteToInvoice(c, id, data)

SpecConvert == InitConvert /\ [][NextConvert]_vars

\* C20: convert on a document of the caller succeeds exactly when the
\* document is a QUOTE in status ACCEPTED; on success exactly one document
\* is new: an INVOICE in DRAFT whose related_document_id is the quote's id,
\* with the quote's customer, items and is_kleinunternehmer flag and the
\* next number of the company's INVOICE counter, and the quote is CONVERTED;
\* otherwise the answer is InvalidState and no document and no counter
\* changes.
C20_Convert ==
    [][\A c \in CompanyIds, id \in DocIds, data \in ConvertDateRequests :
          (Owns(c, id) /\ ConvertQuoteToInvoice(c, id, data)) =>
              LET quote == docs[id]
                  key == <<c, CounterTypeOf(INVOICE)>>
              IN  IF quote.document_type = QUOTE /\ quote.status = ACCEPTED
                  THEN /\ last'.result = "ok"
                       /\ Len(docs') = Len(docs) + 1
                       /\ docs'[id] = [quote EXCEPT !.status = CONVERTED]
                       /\ \A j \in 1..Len(docs) : j # id => docs'[j] = docs[j]
                       /\ LET created == docs'[Len(docs')]
                          IN  /\ created.document_type = INVOICE
                              /\ created.status = DRAFT
                              /\ created.company_id = c
                              /\ created.customer_id = quote.customer_id
                              /\ created.items = quote.items
                              /\ created.is_kleinunternehmer = quote.is_kleinunternehmer
                              /\ created.related_document_id = id
                              /\ DigitsValue(created.document_number.digits) = counters[key] + 1
                       /\ counters' = [counters EXCEPT ![key] = @ + 1]
                  ELSE /\ last'.result = "InvalidState"
                       /\ docs' = docs
                       /\ counters' = counters]_vars

\* ---------------------------------------------------------------------
\* SpecRelated: documents created with a related_document_id chosen by
\* the caller (a stored document, one not yet stored, a malformed id),
\* and get_related_documents on them
\* ---------------------------------------------------------------------
RelatedCreateRequests ==
    {[document_type |-> INVOICE, customer_id |-> c, items |-> <<ItemA>>] :
        c \in DOMAIN CustomerCompany}
    \cup {[document_type |-> DELIVERY_NOTE, customer_id |-> c, items |-> <<ItemA>>,
           related_document_id |-> r] : c \in DOMAIN CustomerCompany, r \in RequestIds}

InitRelated ==
    /\ StoreInit
    /\ last = NoCall
    /\ observed = {"getRelated"}
    /\ capacity = MaxDocs + 1
    /\ calls = NoCalls
    /\ AllocIdle

NextRelated ==
    \/ \E c \in CompanyIds, data \in RelatedCreateRequests : CreateDocument(c, data)
    \/ \E c \in CompanyIds, id \in DocIds : GetRelatedDocuments(c, id)

SpecRelated == InitRelated /\ [][NextRelated]_vars

\* C21: get_related_documents on a document of the caller returns as
\* children exactly the documents of the caller's company whose
\* related_document_id is the id, and as parent the document the
\* related_document_id names when it exists in the same company and None
\* (0) otherwise; no returned document belongs to another company, and the
\* call changes no state.
C21_GetRelated ==
    [][\A c \in CompanyIds, id \in DocIds :
          (Owns(c, id) /\ GetRelatedDocuments(c, id)) =>
              LET r == docs[id].related_document_id
                  returned == related_documents(docs, c, id)
              IN  /\ last'.result = "ok"
                  /\ returned.children = {i \in 1..Len(docs) : /\ docs[i].company_id = c
                                                               /\ docs[i].related_document_id = id}
                  /\ returned.parent = IF r \in 1..Len(docs) /\ docs[r].company_id = c
                                       THEN r ELSE 0
                  /\ \A i \in returned.children \cup ({returned.parent} \ {0}) :
                        docs[i].company_id = c
                  /\ UNCHANGED storeVars]_vars

\* the document reached from a document by following related_document_id
\* links n times (0 when a link names no stored document)
RECURSIVE Follow(_, _)
Follow(id, n) ==
    IF n = 0 \/ id \notin 1..Len(docs) THEN id
    ELSE Follow(docs[id].related_document_id, n - 1)

NoCycles ==
    \A id \in 1..Len(docs) : \A n \in 1..Len(docs) : Follow(id, n) # id

RelatedKept ==
    \A id \in 1..Len(docs) :
        docs'[id].related_document_id = docs[id].related_document_id

\* C23: the relation graph is a forest in every reachable state: a document
\* has one related_document_id, which never changes after creation, and
\* following related_document_id links from a document never returns to
\* it, although create takes the related_document_id from the caller.
C23_RelationForest == []NoCycles /\ [][RelatedKept]_vars

----------------------------------------------------------------------------
(* app/services/company_service.py *)

\* update_company: $set of the fields of the request that are not None
UpdateCompany(company_id, update_data) ==
    /\ UNCHANGED <<docs, counters, observed, capacity, calls, allocVars>>
    /\ IF DOMAIN update_data = {}
       THEN /\ Outcome("updateCompany", "NoOp")
            /\ UNCHANGED companies
       ELSE /\ companies' = [companies EXCEPT ![company_id] =
                   [k \in DOMAIN @ |-> IF k \in DOMAIN update_data THEN update_data[k] ELSE @[k]]]
            /\ Outcome("updateCompany", "ok")

\* ---------------------------------------------------------------------
\* SpecFlag: invoices with VAT, rounding and discount, of a company that
\* charges VAT and of a Kleinunternehmer; the companies change their
\* flag, the documents are edited in DRAFT, cancelled and credited
\* ---------------------------------------------------------------------
\* 3 x 0.333 EUR with 10 % discount at 19 %: every amount is rounded
ItemR == [quantity |-> 3, unit_price |-> 333, vat_rate |-> 19, discount_percent |-> 10]

FlagCreateRequests ==
    {[document_type |-> INVOICE, customer_id |-> c, items |-> <<ItemR, ItemV>>] :
        c \in DOMAIN CustomerCompany}

FlagUpdateRequests == {[items |-> <<ItemV>>]}

\* CompanyUpdate bodies: no field, and the flag set or cleared
CompanyRequests ==
    {[x \in {} |-> 0]} \cup {[is_kleinunternehmer |-> b] : b \in BOOLEAN}

InitFlag ==
    /\ StoreInit
    /\ last = NoCall
    /\ observed = {"cancel", "createCreditNote"}
    /\ capacity = MaxDocs
    /\ calls = NoCalls
    /\ AllocIdle

NextFlag ==
    \/ \E c \in CompanyIds, data \in FlagCreateRequests : CreateDocument(c, data)
    \/ \E c \in CompanyIds, data \in CompanyRequests : UpdateCompany(c, data)
    \/ \E c \in CompanyIds, id \in DocIds, data \in FlagUpdateRequests :
            UpdateDocument(c, id, data)
    \/ \E c \in CompanyIds, id \in DocIds : CancelDocument(c, id)
    \/ \E c \in CompanyIds, id \in DocIds : CreateCreditNote(c, id)

SpecFlag == InitFlag /\ [][NextFlag]_vars

\* a document flagged is_kleinunternehmer carries no VAT
ExemptHasNoVat ==
    \A id \in 1..Len(docs) :
        docs[id].is_kleinunternehmer =>
            /\ docs[id].totals.vat = 0
            /\ \A i \in 1..Len(docs[id].items) :
                  /\ docs[id].items[i].vat_amount = 0
                  /\ docs[id].items[i].gross_amount = docs[id].items[i].net_amount

\* the flag of a document is the flag its company has when the document is
\* created, and it is kept
FlagFromCreation ==
    /\ \A id \in 1..Len(docs) :
          docs'[id].is_kleinunternehmer = docs[id].is_kleinunternehmer
    /\ \A id \in (1..Len(docs')) \ (1..Len(docs)) :
          docs'[id].is_kleinunternehmer = companies[docs'[id].company_id].is_kleinunternehmer

\* C22: in every reachable state every document whose is_kleinunternehmer
\* flag is true has vat_amount = 0 and gross_amount = net_amount on every
\* line item and totals.vat = 0, and the flag is the flag of the company at
\* the time the document was created; also after the company's flag was
\* changed and the document's items were replaced by update.
C22_VatExemptSnapshot == []ExemptHasNoVat /\ [][FlagFromCreation]_vars

\* C24: in every reachable state, with amounts in cents: every line item
\* has gross_amount = net_amount + vat_amount; every document has
\* |totals.net| = sum of the items' net_amount, |totals.vat| = sum of the
\* items' vat_amount and totals.gross = totals.net + totals.vat; the three
\* totals are non-negative for every type except CREDIT_NOTE and
\* CANCELLATION.
C24_TotalsAddUp ==
    \A id \in 1..Len(docs) :
        LET doc == docs[id]
        IN  /\ \A i \in 1..Len(doc.items) :
                  doc.items[i].gross_amount = doc.items[i].net_amount + doc.items[i].vat_amount
            /\ Abs(doc.totals.net) = SumOf(doc.items, "net_amount")
            /\ Abs(doc.totals.vat) = SumOf(doc.items, "vat_amount")
            /\ doc.totals.gross = doc.totals.net + doc.totals.vat
            /\ doc.document_type \notin {CREDIT_NOTE, CANCELLATION} =>
                  (doc.totals.net >= 0 /\ doc.totals.vat >= 0 /\ doc.totals.gross >= 0)

\* an invoice with two lines whose amounts were rounded line by line (net
\* 0.90 + 1.00, VAT 0.17 + 0.19) and the cancellation made from it
C24_Witness ==
    \E i, j \in 1..Len(docs) :
        /\ docs[i].document_type = INVOICE
        /\ Len(docs[i].items) = 2
        /\ docs[i].items[1].discount_amount = 100
        /\ docs[i].totals.net = 1900
        /\ docs[i].totals.vat = 360
        /\ docs[i].totals.gross = 2260
        /\ docs[j].document_type = CANCELLATION
        /\ docs[j].related_document_id = i
        /\ docs[j].totals.net = -1900
        /\ docs[j].totals.vat = -360
        /\ docs[j].totals.gross = -2260

\* C25: the CANCELLATION made by cancel and the CREDIT_NOTE made by
\* createCreditNote mirror the source: their net, vat and gross are the
\* negated absolute values of the source's net, vat and gross at the time
\* of the call; the source's items and totals are unchanged, and
\* createCreditNote leaves the source's status unchanged too.
C25_MirrorTotals ==
    [][\A c \in CompanyIds, id \in DocIds :
          /\ (Owns(c, id) /\ CancelDocument(c, id) /\ last'.result = "ok") =>
                /\ docs'[Len(docs')].totals.net = -Abs(docs[id].totals.net)
                /\ docs'[Len(docs')].totals.vat = -Abs(docs[id].totals.vat)
                /\ docs'[Len(docs')].totals.gross = -Abs(docs[id].totals.gross)
                /\ docs'[id].items = docs[id].items
                /\ docs'[id].totals = docs[id].totals
          /\ (Owns(c, id) /\ CreateCreditNote(c, id) /\ last'.result = "ok") =>
                /\ docs'[Len(docs')].totals.net = -Abs(docs[id].totals.net)
                /\ docs'[Len(docs')].totals.vat = -Abs(docs[id].totals.vat)
                /\ docs'[Len(docs')].totals.gross = -Abs(docs[id].totals.gross)
                /\ docs'[id] = docs[id]]_vars

\* C30: no invoice is ever overpaid: after any sequence of operations
\* executed one at a time, direct payments on an invoice combined with
\* payments cascaded from its partial invoices included, every INVOICE and
\* PARTIAL_INVOICE has paid_amount <= |gross| + 0.01 and
\* remaining_amount >= -0.01.
C30_NeverOverpaid ==
    \A id \in 1..Len(docs) :
        docs[id].document_type \in {INVOICE, PARTIAL_INVOICE} =>
            /\ docs[id].totals.paid_amount <= Abs(docs[id].totals.gross) + Tolerance
            /\ docs[id].totals.remaining_amount >= -Tolerance


(***************************************************************************)
(* Service calls between their awaits                                      *)
(*                                                                         *)
(* The handlers are coroutines: between two awaited store operations of    *)
(* one call the event loop runs steps of other calls.  `calls` holds, for  *)
(* each caller, the call it has in flight: the handler, the await it is    *)
(* at, its arguments and what it has read so far.  A step below is the     *)
(* code of the handler from one awaited store operation to the next.       *)
(***************************************************************************)

Callers == 1..MaxCallers

Idle == [op |-> "none"]

\* the call of caller w goes on as `next`, or returns when `next` is Idle
Proceed(w, op, next) ==
    /\ calls' = [calls EXCEPT ![w] = next]
    /\ IF next = Idle THEN Ok(op) ELSE last' = NoCall

\* the call of caller w is refused before it has written anything
Refuse(w, op, kind) ==
    /\ Fail(op, kind)
    /\ UNCHANGED calls

\* add_payment after the status of the paid document is settled: the call
\* goes on to the parent invoice of a PAID partial invoice, or returns
after_payment(call, updated, new_status) ==
    IF /\ updated.document_type = PARTIAL_INVOICE
       /\ new_status = PAID
       /\ updated.related_document_id # 0
    THEN [op |-> "addPayment", at |-> "parent", company_id |-> call.company_id,
          document_id |-> call.document_id, data |-> call.data, updated |-> updated]
    ELSE Idle

\* add_payment: get_document and the checks made on the document as read
AddPaymentRead(w, company_id, document_id, data) ==
    /\ calls[w] = Idle
    /\ UNCHANGED <<companies, observed, capacity, allocVars>>
    /\ IF InvalidId(document_id)
       THEN Refuse(w, "addPayment", "InvalidId")
       ELSE IF ~Found(company_id, document_id)
       THEN Refuse(w, "addPayment", "NotFound")
       ELSE LET check == payment_check(docs[document_id], data.amount)
            IN  IF check # "ok"
                THEN Refuse(w, "addPayment", check)
                ELSE /\ Proceed(w, "addPayment",
                                [op |-> "addPayment", at |-> "push",
                                 company_id |-> company_id,
                                 document_id |-> document_id, data |-> data])
                     /\ UNCHANGED <<docs, counters>>

\* add_payment: document_repo.add_payment and the status derived from the
\* document it returns
AddPaymentPush(w) ==
    /\ calls[w].op = "addPayment"
    /\ calls[w].at = "push"
    /\ UNCHANGED <<counters, companies, observed, capacity, allocVars>>
    /\ LET call == calls[w]
           payment_record == [amount |-> call.data.amount,
                              date |-> Opt(call.data, "date", Today),
                              method |-> Opt(call.data, "method", "BANK")]
           d1 == add_payment(docs, call.document_id, payment_record)
           updated == d1[call.document_id]
           new_status == status_after_payment(updated)
       IN  /\ docs' = d1
           /\ IF new_status # updated.status
              THEN Proceed(w, "addPayment",
                           [op |-> "addPayment", at |-> "status",
                            company_id |-> call.company_id,
                            document_id |-> call.document_id, data |-> call.data,
                            new_status |-> new_status])
              ELSE Proceed(w, "addPayment", after_payment(call, updated, new_status))

\* add_payment: update_one with the new status
AddPaymentStatus(w) ==
    /\ calls[w].op = "addPayment"
    /\ calls[w].at = "status"
    /\ UNCHANGED <<counters, companies, observed, capacity, allocVars>>
    /\ LET call == calls[w]
           d1 == update_one(docs, call.document_id, [status |-> call.new_status])
       IN  /\ docs' = d1
           /\ Proceed(w, "addPayment",
                      after_payment(call, d1[call.document_id], call.new_status))

\* the payment add_payment records on the parent invoice
parent_payment_NoReference(updated, data) ==
    [amount |-> Abs(updated.totals.gross),
     date |-> Opt(data, "date", Today),
     method |-> Opt(data, "method", "BANK")]

parent_payment(updated, data) ==
    [amount |-> Abs(updated.totals.gross),
     date |-> Opt(data, "date", Today),
     method |-> Opt(data, "method", "BANK"),
     reference |-> <<"Abschlagsrechnung", updated.document_number>>]

\* add_payment: get_document of the parent inside the try block
CascadeRead(w) ==
    /\ calls[w].op = "addPayment"
    /\ calls[w].at = "parent"
    /\ UNCHANGED <<docs, counters, companies, observed, capacity, allocVars>>
    /\ LET call == calls[w]
           parent_id == call.updated.related_document_id
       IN  IF InvalidId(parent_id)
           THEN \* InvalidId is no HTTPException: it leaves the try block
                /\ calls' = [calls EXCEPT ![w] = Idle]
                /\ Outcome("addPayment", "InvalidId")
           ELSE IF ~Found(call.company_id, parent_id)
           THEN Proceed(w, "addPayment", Idle)    \* HTTPException swallowed
           ELSE IF docs[parent_id].document_type # INVOICE
           THEN Proceed(w, "addPayment", Idle)
           ELSE Proceed(w, "addPayment", [call EXCEPT !.at = "parent_push"])

\* add_payment: document_repo.add_payment on the parent and the status
\* derived from the document it returns
CascadePush(w) ==
    /\ calls[w].op = "addPayment"
    /\ calls[w].at = "parent_push"
    /\ UNCHANGED <<counters, companies, observed, capacity, allocVars>>
    /\ LET call == calls[w]
           parent_id == call.updated.related_document_id
           d1 == add_payment(docs, parent_id, parent_payment(call.updated, call.data))
           parent_paid == d1[parent_id].totals.paid_amount
           parent_gross == Abs(d1[parent_id].totals.gross)
           goes(s) == [op |-> "addPayment", at |-> "parent_status",
                       company_id |-> call.company_id,
                       document_id |-> call.document_id,
                       parent_id |-> parent_id, new_status |-> s]
       IN  /\ docs' = d1
           /\ IF Abs(parent_paid - parent_gross) < Tolerance
              THEN Proceed(w, "addPayment", goes(PAID))
              ELSE IF parent_paid > 0
              THEN Proceed(w, "addPayment", goes(PARTIALLY_PAID))
              ELSE Proceed(w, "addPayment", Idle)

\* add_payment: update_one with the status of the parent
CascadeStatus(w) ==
    /\ calls[w].op = "addPayment"
    /\ calls[w].at = "parent_status"
    /\ UNCHANGED <<counters, companies, observed, capacity, allocVars>>
    /\ docs' = update_one(docs, calls[w].parent_id, [status |-> calls[w].new_status])
    /\ Proceed(w, "addPayment", Idle)


----------------------------------------------------------------------------
(* Specification SpecPayRace: the callers of one company pay invoices and  *)
(* partial invoices, each add_payment call advancing from await to await   *)
(* while the calls of the other callers advance in between.                *)

RaceCreateRequests ==
    {[document_type |-> INVOICE, customer_id |-> "c1", items |-> <<ItemA>>]}

\* CreatePartialRequest bodies: 0.004 EUR, which rounds to a partial invoice
\* of 0.00 EUR, and 1.00 EUR
RacePartialRequests == {[amount |-> a] : a \in {4, 1000}}

RacePaymentRequests == {[amount |-> a] : a \in {4, 1000}}

InitPayRace ==
    /\ StoreInit
    /\ last = NoCall
    /\ observed = {}
    /\ capacity = MaxDocs
    /\ calls = [w \in Callers |-> Idle]
    /\ AllocIdle

\* the steps that take a call in flight to its next await or to its return
PaymentStep(w) ==
    \/ AddPaymentPush(w)
    \/ AddPaymentStatus(w)
    \/ CascadeRead(w)
    \/ CascadePush(w)
    \/ CascadeStatus(w)

NextPayRace ==
    \/ \E data \in RaceCreateRequests : CreateDocument("t1", data)
    \/ \E id \in DocIds : UpdateStatus("t1", id, SENT)
    \/ \E id \in DocIds, data \in RacePartialRequests : CreatePartialInvoice("t1", id, data)
    \/ \E w \in Callers, id \in DocIds, data \in RacePaymentRequests :
            PaymentRoom(id) /\ AddPaymentRead(w, "t1", id, data)
    \/ \E w \in Callers : PaymentStep(w)

SpecPayRace == InitPayRace /\ [][NextPayRace]_vars

\* C28: of two concurrent addPayment calls on one invoice whose amounts
\* together exceed the remaining amount by more than 0.01, at most one is
\* accepted: no accepted call records a payment that exceeds, by more than
\* 0.01, what remains on the document when the payment is recorded.
C28_NotBothAccepted ==
    [][\A w \in Callers :
          AddPaymentPush(w) =>
              calls[w].data.amount <=
                  docs[calls[w].document_id].totals.remaining_amount + Tolerance]_vars


(* Specification SpecPayLive: SpecPayRace where the event loop resumes     *)
(* every call in flight: a call that waits at an await is eventually       *)
(* continued, the store answering every operation.                         *)
SpecPayLive == SpecPayRace /\ \A w \in Callers : WF_vars(PaymentStep(w))

\* the add_payment call of caller w has brought partial invoice `id` to PAID,
\* its related_document_id names an INVOICE of the same company, and the
\* cascade has not yet started
CascadePending(w, id) ==
    /\ calls[w].op = "addPayment"
    /\ calls[w].at = "parent"
    /\ calls[w].document_id = id
    /\ docs[id].status = PAID
    /\ Found(calls[w].company_id, docs[id].related_document_id)
    /\ docs[docs[id].related_document_id].document_type = INVOICE

\* the parent of partial invoice `id` holds a payment of the partial's gross
\* amount that refers to the partial's number
ParentReceived(id) ==
    /\ id \in 1..Len(docs)
    /\ docs[id].related_document_id \in 1..Len(docs)
    /\ \E k \in 1..Len(docs[docs[id].related_document_id].payments) :
           LET p == docs[docs[id].related_document_id].payments[k]
           IN  /\ p.amount = Abs(docs[id].totals.gross)
               /\ "reference" \in DOMAIN p
               /\ p.reference = <<"Abschlagsrechnung", docs[id].document_number>>

ParentOf(id) == docs[docs[id].related_document_id]

\* C26 as stated: once an addPayment has brought a PARTIAL_INVOICE to PAID
\* and its relatedDocumentRef names an existing INVOICE of the same tenant,
\* the parent eventually holds a payment of the partial's gross amount that
\* refers to the partial, with the parent's status PAID or PARTIALLY_PAID.
C26_EventualParentAsStated ==
    \A w \in Callers, id \in DocIds :
        CascadePending(w, id) ~>
            (ParentReceived(id) /\ ParentOf(id).status \in {PAID, PARTIALLY_PAID})

\* C26 amended: the parent eventually holds that payment, and its status is
\* PAID or PARTIALLY_PAID if its paid amount is above 0.
C26_EventualParent ==
    \A w \in Callers, id \in DocIds :
        CascadePending(w, id) ~>
            /\ ParentReceived(id)
            /\ ParentOf(id).totals.paid_amount > 0 =>
                   ParentOf(id).status \in {PAID, PARTIALLY_PAID}

\* the intermediate state: a partial invoice of 1.00 EUR is PAID and its
\* parent has not yet received the payment
C26_Witness ==
    \E w \in Callers, id \in DocIds :
        /\ CascadePending(w, id)
        /\ docs[id].totals.gross = 1000
        /\ ~ParentReceived(id)
        /\ ParentOf(id).payments = <<>>


----------------------------------------------------------------------------
(* add_reminder between its awaits *)

\* add_reminder: get_document, the checks and the level, all made on the
\* document as read
AddReminderRead(w, company_id, document_id, data) ==
    /\ calls[w] = Idle
    /\ UNCHANGED <<companies, observed, capacity, allocVars>>
    /\ IF InvalidId(document_id)
       THEN Refuse(w, "addReminder", "InvalidId")
       ELSE IF ~Found(company_id, document_id)
       THEN Refuse(w, "addReminder", "NotFound")
       ELSE LET check == reminder_check(docs[document_id])
            IN  IF check # "ok"
                THEN Refuse(w, "addReminder", check)
                ELSE /\ Proceed(w, "addReminder",
                                [op |-> "addReminder", at |-> "push",
                                 document_id |-> document_id,
                                 reminder_record |->
                                     [level |-> Len(docs[document_id].reminders) + 1,
                                      date |-> Today,
                                      fee |-> Opt(data, "fee", 0)]])
                     /\ UNCHANGED <<docs, counters>>

\* add_reminder: document_repo.add_reminder and the look at the status of
\* the document it returns
AddReminderPush(w) ==
    /\ calls[w].op = "addReminder"
    /\ calls[w].at = "push"
    /\ UNCHANGED <<counters, companies, observed, capacity, allocVars>>
    /\ LET call == calls[w]
           d1 == add_reminder(docs, call.document_id, call.reminder_record)
       IN  /\ docs' = d1
           /\ IF d1[call.document_id].status \notin {OVERDUE, PARTIALLY_PAID}
              THEN Proceed(w, "addReminder",
                           [op |-> "addReminder", at |-> "status",
                            document_id |-> call.document_id])
              ELSE Proceed(w, "addReminder", Idle)

\* add_reminder: update_one with the status OVERDUE
AddReminderStatus(w) ==
    /\ calls[w].op = "addReminder"
    /\ calls[w].at = "status"
    /\ UNCHANGED <<counters, companies, observed, capacity, allocVars>>
    /\ docs' = update_one(docs, calls[w].document_id, [status |-> OVERDUE])
    /\ Proceed(w, "addReminder", Idle)

(* Specification SpecRemindRace: the callers of one company remind         *)
(* invoices, each add_reminder call advancing from await to await.         *)

InitRemindRace ==
    /\ StoreInit
    /\ last = NoCall
    /\ observed = {}
    /\ capacity = MaxDocs
    /\ calls = [w \in Callers |-> Idle]
    /\ AllocIdle

NextRemindRace ==
    \/ \E data \in RaceCreateRequests : CreateDocument("t1", data)
    \/ \E id \in DocIds : UpdateStatus("t1", id, SENT)
    \/ \E w \in Callers, id \in DocIds, data \in ReminderRequests :
            AddReminderRead(w, "t1", id, data)
    \/ \E w \in Callers : AddReminderPush(w)
    \/ \E w \in Callers : AddReminderStatus(w)

SpecRemindRace == InitRemindRace /\ [][NextRemindRace]_vars

\* C29: under any interleaving of concurrent addReminder calls on one
\* document, no two stored reminders of the document have the same level and
\* the document never stores more than MAX_REMINDER_LEVEL reminders.
C29_ReminderLevelsUnique ==
    \A id \in 1..Len(docs) :
        /\ \A j, k \in 1..Len(docs[id].reminders) :
               j # k => docs[id].reminders[j].level # docs[id].reminders[k].level
        /\ Len(docs[id].reminders) <= MAX_REMINDER_LEVEL


----------------------------------------------------------------------------
(* update_document between its awaits *)

\* update_document: get_document and the DRAFT check on the document as read
UpdateDocumentRead(w, company_id, document_id, data) ==
    /\ calls[w] = Idle
    /\ UNCHANGED <<companies, observed, capacity, allocVars>>
    /\ IF InvalidId(document_id)
       THEN Refuse(w, "update", "InvalidId")
       ELSE IF ~Found(company_id, document_id)
       THEN Refuse(w, "update", "NotFound")
       ELSE IF update_refused(docs[document_id])
       THEN Refuse(w, "update", "InvalidState")
       ELSE /\ Proceed(w, "update",
                       [op |-> "update", at |-> "write", company_id |-> company_id,
                        document_id |-> document_id, data |-> data,
                        doc |-> docs[document_id]])
            /\ UNCHANGED <<docs, counters>>

\* update_document: the company and the line items are read, the fields are
\* put together and update_one writes them, filtered on the _id alone
UpdateDocumentWrite(w) ==
    /\ calls[w].op = "update"
    /\ calls[w].at = "write"
    /\ UNCHANGED <<companies, observed, capacity, allocVars>>
    /\ LET call == calls[w]
       IN  IF Has(call.data, "items") /\ resolve_fails(call.company_id, call.data.items)
           THEN /\ Fail("update", "NotFound")
                /\ calls' = [calls EXCEPT ![w] = Idle]
           ELSE LET fields == update_fields(call.company_id, call.doc, call.data)
                IN  IF DOMAIN fields = {}
                    THEN /\ Fail("update", "NoOp")
                         /\ calls' = [calls EXCEPT ![w] = Idle]
                    ELSE /\ docs' = update_one(docs, call.document_id, fields)
                         /\ UNCHANGED counters
                         /\ Proceed(w, "update", Idle)

(* Specification SpecEditRace: the callers of one company edit invoices,   *)
(* each update_document call advancing from await to await, while the      *)
(* invoices are sent, paid and cancelled.                                  *)

EditRaceUpdateRequests == {[items |-> <<ItemB>>], [notes |-> <<"n">>]}

EditRacePaymentRequests == {[amount |-> 500]}

InitEditRace ==
    /\ StoreInit
    /\ last = NoCall
    /\ observed = {}
    /\ capacity = MaxDocs
    /\ calls = [w \in Callers |-> Idle]
    /\ AllocIdle

NextEditRace ==
    \/ \E data \in RaceCreateRequests : CreateDocument("t1", data)
    \/ \E id \in DocIds : UpdateStatus("t1", id, SENT)
    \/ \E id \in DocIds, data \in EditRacePaymentRequests :
            PaymentRoom(id) /\ AddPayment("t1", id, data)
    \/ \E id \in DocIds : CancelDocument("t1", id)
    \/ \E w \in Callers, id \in DocIds, data \in EditRaceUpdateRequests :
            UpdateDocumentRead(w, "t1", id, data)
    \/ \E w \in Callers : UpdateDocumentWrite(w)

SpecEditRace == InitEditRace /\ [][NextEditRace]_vars

\* C27: once a document's status has left DRAFT, no step changes its items
\* or its net, vat and gross totals or lowers its paid amount, however an
\* update call (read, DRAFT check, write) is interleaved with updateStatus,
\* addPayment and cancel on the same document.
C27_FrozenAfterDraft ==
    [][\A id \in 1..Len(docs) :
          docs[id].status # DRAFT =>
              /\ docs'[id].items = docs[id].items
              /\ docs'[id].totals.net = docs[id].totals.net
              /\ docs'[id].totals.vat = docs[id].totals.vat
              /\ docs'[id].totals.gross = docs[id].totals.gross
              /\ docs'[id].totals.paid_amount >= docs[id].totals.paid_amount]_vars


\* C31: in every reachable state the paid amount of every document is the
\* sum of the amounts of the payments stored in its payments list.
C31_PaidIsSumOfPayments ==
    \A id \in 1..Len(docs) :
        docs[id].totals.paid_amount = SumOf(docs[id].payments, "amount")


\* C32: in every reachable state every INVOICE or PARTIAL_INVOICE whose
\* status is PAID has |paid amount - |gross|| < 0.01, whichever operation
\* set the status.
C32_PaidReflectsMoney ==
    \A id \in 1..Len(docs) :
        (docs[id].document_type \in {INVOICE, PARTIAL_INVOICE} /\ docs[id].status = PAID) =>
            Abs(docs[id].totals.paid_amount - Abs(docs[id].totals.gross)) < Tolerance

\* C33: after every successful add_payment that leaves the remaining amount
\* of the document at or below 0, the status of the document is PAID.
C33_FullyPaidIsPaid ==
    [][\A c \in CompanyIds, id \in DocIds, data \in PayRequests :
          (AddPayment(c, id, data) /\ last'.result = "ok"
               /\ docs'[id].totals.remaining_amount <= 0) =>
              docs'[id].status = PAID]_vars

\* the INVOICE children of a document
InvoiceChildren(id) ==
    {k \in 1..Len(docs) : docs[k].document_type = INVOICE /\ docs[k].related_document_id = id}

\* C34: in every reachable state every QUOTE whose status is CONVERTED has
\* at least one INVOICE whose related document is the quote.
C34_ConvertedHasInvoice ==
    \A id \in 1..Len(docs) :
        (docs[id].document_type = QUOTE /\ docs[id].status = CONVERTED) =>
            InvoiceChildren(id) # {}


----------------------------------------------------------------------------
(* convert_quote_to_invoice between its awaits *)

\* convert_quote_to_invoice: get_document and the checks on the quote as read
ConvertRead(w, company_id, quote_id, data) ==
    /\ calls[w] = Idle
    /\ UNCHANGED <<companies, observed, capacity, allocVars>>
    /\ IF InvalidId(quote_id)
       THEN Refuse(w, "convert", "InvalidId")
       ELSE IF ~Found(company_id, quote_id)
       THEN Refuse(w, "convert", "NotFound")
       ELSE IF docs[quote_id].document_type # QUOTE
       THEN Refuse(w, "convert", "InvalidState")
       ELSE IF docs[quote_id].status # ACCEPTED
       THEN Refuse(w, "convert", "InvalidState")
       ELSE /\ Proceed(w, "convert",
                       [op |-> "convert", at |-> "insert", company_id |-> company_id,
                        quote_id |-> quote_id, data |-> data, quote |-> docs[quote_id]])
            /\ UNCHANGED <<docs, counters>>

\* convert_quote_to_invoice: the invoice number is drawn and the invoice,
\* built from the quote as read, is inserted
ConvertInsert(w) ==
    /\ calls[w].op = "convert"
    /\ calls[w].at = "insert"
    /\ UNCHANGED <<companies, observed, capacity, allocVars>>
    /\ LET call == calls[w]
           quote == call.quote
           gen == generate_document_number(counters, call.company_id, INVOICE)
           issue_date == OrDate(call.data, "issue_date", Today)
           payment_terms_days == Opt(call.data, "payment_terms_days", 14)
           due_date == OrDate(call.data, "due_date",
                              calc_due_date(issue_date, payment_terms_days))
           invoice_doc == new_document(call.company_id, quote.customer_id, INVOICE,
                              gen.number, quote.items, quote.is_kleinunternehmer,
                              quote.notes, payment_terms_days, issue_date,
                              NoDate, due_date, call.quote_id)
       IN  IF OrDate(call.data, "due_date", NoDate) = NoDate /\ ValueError(issue_date)
           THEN \* raised after the invoice number was drawn
                /\ counters' = gen.counters
                /\ UNCHANGED docs
                /\ calls' = [calls EXCEPT ![w] = Idle]
                /\ Outcome("convert", "ValueError")
           ELSE /\ Room
                /\ counters' = gen.counters
                /\ docs' = insert_one(docs, invoice_doc)
                /\ Proceed(w, "convert",
                           [op |-> "convert", at |-> "mark", quote_id |-> call.quote_id])

\* convert_quote_to_invoice: update_one marks the quote CONVERTED
ConvertMark(w) ==
    /\ calls[w].op = "convert"
    /\ calls[w].at = "mark"
    /\ UNCHANGED <<counters, companies, observed, capacity, allocVars>>
    /\ docs' = update_one(docs, calls[w].quote_id, [status |-> CONVERTED])
    /\ Proceed(w, "convert", Idle)

(* Specification SpecConvertRace: the callers of one company convert       *)
(* quotes, each convert_quote_to_invoice call advancing from await to      *)
(* await.                                                                  *)

ConvertRaceCreateRequests ==
    {[document_type |-> QUOTE, customer_id |-> "c1", items |-> <<ItemA>>]}

InitConvertRace ==
    /\ StoreInit
    /\ last = NoCall
    /\ observed = {}
    /\ capacity = MaxDocs + 2
    /\ calls = [w \in Callers |-> Idle]
    /\ AllocIdle

NextConvertRace ==
    \/ \E data \in ConvertRaceCreateRequests : CreateDocument("t1", data)
    \/ \E id \in DocIds, st \in ConvertStatusRequests : UpdateStatus("t1", id, st)
    \/ \E w \in Callers, id \in DocIds, data \in ConvertRequests :
            ConvertRead(w, "t1", id, data)
    \/ \E w \in Callers : ConvertInsert(w)
    \/ \E w \in Callers : ConvertMark(w)

SpecConvertRace == InitConvertRace /\ [][NextConvertRace]_vars

\* C35: under any sequence or interleaving of convertQuoteToInvoice calls on
\* one quote, at most one INVOICE is ever created from the quote.
C35_ConvertedAtMostOnce ==
    \A id \in 1..Len(docs) :
        docs[id].document_type = QUOTE => Cardinality(InvoiceChildren(id)) <= 1


----------------------------------------------------------------------------
(* Specification SpecCancelTwice: one company creates invoices and their   *)
(* partial invoices, sends, pays and cancels them, one call at a time.     *)

CancelTwicePaymentRequests == {[amount |-> 1000]}

InitCancelTwice ==
    /\ StoreInit
    /\ last = NoCall
    /\ observed = {"cancel"}
    /\ capacity = MaxDocs + 2
    /\ calls = NoCalls
    /\ AllocIdle

NextCancelTwice ==
    \/ \E data \in RaceCreateRequests : CreateDocument("t1", data)
    \/ \E id \in DocIds : UpdateStatus("t1", id, SENT)
    \/ \E id \in DocIds, data \in PayPartialRequests :
            CreatePartialInvoice("t1", id, data)
    \/ \E id \in DocIds, data \in CancelTwicePaymentRequests :
            PaymentRoom(id) /\ AddPayment("t1", id, data)
    \/ \E id \in DocIds : CancelDocument("t1", id)

SpecCancelTwice == InitCancelTwice /\ [][NextCancelTwice]_vars

\* the CANCELLATION documents generated for a document
CancellationsOf(id) ==
    {k \in 1..Len(docs) :
        docs[k].document_type = CANCELLATION /\ docs[k].related_document_id = id}

\* C36: under any sequence of lifecycle operations cancel succeeds at most
\* once per INVOICE or PARTIAL_INVOICE: at most one CANCELLATION document is
\* ever generated for the same original.
C36_CancelledAtMostOnce ==
    \A id \in 1..Len(docs) : Cardinality(CancellationsOf(id)) <= 1


\* C37: in every reachable state the customer_id of every document names a
\* customer of the document's company.
C37_CustomerOfTenant ==
    \A id \in 1..Len(docs) : CustomerFound(docs[id].company_id, docs[id].customer_id)


\* the statuses a document of the type may have
StatusesOf(document_type) ==
    IF document_type \in {INVOICE, PARTIAL_INVOICE}
    THEN {DRAFT, SENT, PARTIALLY_PAID, PAID, OVERDUE, CANCELLED}
    ELSE IF document_type = QUOTE
    THEN {DRAFT, SENT, ACCEPTED, REJECTED, CANCELLED, CONVERTED}
    ELSE IF document_type = CANCELLATION
    THEN {DRAFT, SENT}
    ELSE {DRAFT, SENT, CANCELLED}

TypeStatusConsistent ==
    \A id \in 1..Len(docs) :
        /\ docs[id].status \in StatusesOf(docs[id].document_type)
        /\ docs[id].document_type \notin {INVOICE, PARTIAL_INVOICE} =>
               (docs[id].payments = <<>> /\ docs[id].reminders = <<>>)

CreatedAsDraft ==
    \A id \in 1..Len(docs') :
        id > Len(docs) =>
            /\ docs'[id].status = DRAFT
            /\ docs'[id].payments = <<>>
            /\ docs'[id].reminders = <<>>

\* C38: every document is created in status DRAFT with no payments and no
\* reminders; in every reachable state an INVOICE or PARTIAL_INVOICE has a
\* status in {DRAFT, SENT, PARTIALLY_PAID, PAID, OVERDUE, CANCELLED}, a QUOTE
\* in {DRAFT, SENT, ACCEPTED, REJECTED, CANCELLED, CONVERTED}, a
\* DELIVERY_NOTE, ORDER_CONFIRMATION or CREDIT_NOTE in {DRAFT, SENT,
\* CANCELLED} and a CANCELLATION in {DRAFT, SENT}, and only INVOICE and
\* PARTIAL_INVOICE documents hold payments or reminders.
C38_TypeStatusConsistency == []TypeStatusConsistent /\ [][CreatedAsDraft]_vars

\* an invoice that holds a payment and a reminder next to a rejected quote
C38_Witness ==
    \E i, j \in 1..Len(docs) :
        /\ docs[i].document_type = INVOICE
        /\ docs[i].payments # <<>>
        /\ docs[i].reminders # <<>>
        /\ docs[j].document_type = QUOTE
        /\ docs[j].status = REJECTED


----------------------------------------------------------------------------
(* Specification SpecReject: company t1 creates, sends, converts, cancels, *)
(* credits and part-invoices documents, one call at a time, with requests  *)
(* that the business rules refuse among them; the outcome of every call is *)
(* observed.                                                               *)

\* a line of a product that is not in the catalogue
ItemUnknown == [product_id |-> "p2", quantity |-> 1]

\* DocumentCreate bodies: for the company's customer c1 and for c2, the
\* customer of the other company; with a free-text line and with a line of
\* an unknown product
RejectCreateRequests ==
    {[document_type |-> ty, customer_id |-> c, items |-> <<it>>] :
        ty \in {INVOICE, QUOTE}, c \in DOMAIN CustomerCompany, it \in {ItemA, ItemUnknown}}

RejectStatusRequests == {SENT, ACCEPTED, PAID}

\* CreatePartialRequest bodies: all of ItemA's gross amount and twice as much
RejectPartialRequests == {[amount |-> a] : a \in {1000, 2000}}

RejectOperations ==
    {"create", "convert", "cancel", "createCreditNote", "createPartialInvoice", "updateStatus"}

BusinessErrors == {"NotFound", "InvalidState", "InvalidTransition", "CapExceeded"}

InitReject ==
    /\ StoreInit
    /\ last = NoCall
    /\ observed = RejectOperations
    /\ capacity = MaxDocs + 1
    /\ calls = NoCalls
    /\ AllocIdle

NextReject ==
    \/ \E data \in RejectCreateRequests : CreateDocument("t1", data)
    \/ \E id \in DocIds, st \in RejectStatusRequests : UpdateStatus("t1", id, st)
    \/ \E id \in DocIds, data \in ConvertRequests : ConvertQuoteToInvoice("t1", id, data)
    \/ \E id \in DocIds : CancelDocument("t1", id)
    \/ \E id \in DocIds : CreateCreditNote("t1", id)
    \/ \E id \in DocIds, data \in RejectPartialRequests : CreatePartialInvoice("t1", id, data)

SpecReject == InitReject /\ [][NextReject]_vars

\* the numbers of the documents of a company and type stored in d
NumbersOf(d, company_id, document_type) ==
    {DigitsValue(d[i].document_number.digits) :
        i \in {j \in 1..Len(d) : d[j].company_id = company_id
                                 /\ d[j].document_type = document_type}}

\* the numbers of the stored documents of each (company, type) are 1..n
NumbersContiguous(d) ==
    \A c \in CompanyIds, ty \in DocumentType_ALL :
        NumbersOf(d, c, ty) = 1..Cardinality(NumbersOf(d, c, ty))

\* C39: a create, convert, cancel, createCreditNote, createPartialInvoice or
\* updateStatus call that fails with NotFound, InvalidState,
\* InvalidTransition or CapExceeded leaves every sequence counter unchanged,
\* and the numbers of the stored documents of each (company, type), if they
\* were the range 1..n before the call, still are after it.
C39_RejectedKeepsCounters ==
    [][(last'.op \in RejectOperations /\ last'.result \in BusinessErrors) =>
          /\ counters' = counters
          /\ NumbersContiguous(docs) => NumbersContiguous(docs')]_vars

\* a partial invoice is refused for the cap after numbers have been drawn
\* for an invoice and a partial invoice
C39_Witness ==
    /\ last = [op |-> "createPartialInvoice", result |-> "CapExceeded"]
    /\ counters[<<"t1", CounterTypeOf(PARTIAL_INVOICE)>>] = 1
    /\ counters[<<"t1", CounterTypeOf(INVOICE)>>] = 1
    /\ NumbersContiguous(docs)


\* the payments of the parent that name partial invoice `id`
CascadedFrom(id) ==
    LET parent_id == docs[id].related_document_id
    IN  IF parent_id \in 1..Len(docs)
        THEN {k \in 1..Len(docs[parent_id].payments) :
                 /\ "reference" \in DOMAIN docs[parent_id].payments[k]
                 /\ docs[parent_id].payments[k].reference =
                        <<"Abschlagsrechnung", docs[id].document_number>>}
        ELSE {}

\* C40: under any sequence or interleaving of the lifecycle operations the
\* parent invoice never holds more than one payment whose reference names
\* the same PARTIAL_INVOICE.
C40_CascadeAtMostOnce ==
    \A id \in 1..Len(docs) :
        docs[id].document_type = PARTIAL_INVOICE => Cardinality(CascadedFrom(id)) <= 1

====
